---- MODULE Spec2Model ----
(***************************************************************************)
(* Model of the buds-relay jar receipt log: storeJarReceipt and the        *)
(* helpers it calls (extractSenderDid, computeCID, getSenderPublicKey,     *)
(* verifySignature, isActiveMember, tryInsertReceipt, processJarReceipt),  *)
(* over the D1 tables jar_receipts, jar_members and devices.               *)
(*                                                                         *)
(* Every D1 statement is atomic; every await between two statements is a   *)
(* point where another request may run.  A request is a process of Procs;  *)
(* pc[p] is the statement it will execute next.                            *)
(***************************************************************************)
EXTENDS Integers, FiniteSets, Sequences, TLC

VARIABLES
    jar_receipts,   \* table jar_receipts: set of rows
    jar_members,    \* table jar_members: set of rows
    devices,        \* table devices: set of rows
    now,            \* Date.now() as seen by registerDevice
    pc,             \* per request: next statement of storeJarReceipt
    jarId,          \* per request: c.req.param('jarId')
    receiptBytes,   \* per request: decoded receipt_data
    signatureBytes, \* per request: decoded signature
    senderPublicKey,\* per request: result of getSenderPublicKey
    isMember,       \* per request: result of isActiveMember
    attempt,        \* per request: loop counter of the insert loop
    authoritativeSequence, \* per request: result of tryInsertReceipt (0 = null)
    response,       \* per request: last HTTP response [status, sequence_number]
    startMax,       \* history: MAX(sequence_number) of the jar when the request began
    overlapsSame,   \* history: the request overlapped one carrying the same receipt_data
    calls,          \* number of requests begun so far
    phone_to_did,   \* table phone_to_did: set of rows
    rpc,            \* getJarReceipts: next statement
    rjar,           \* getJarReceipts: c.req.param('jarId')
    rphone,         \* getJarReceipts: user.phoneNumber
    rquery,         \* getJarReceipts: the query parameters after, limit, from, to
    requesterDid,   \* getJarReceipts: phoneMapping.did
    rresponse,      \* getJarReceipts: last HTTP response [status, receipts]
    reads,          \* number of getJarReceipts requests begun so far
    account_salts,  \* table account_salts: set of rows
    spc,            \* getOrCreateAccountSalt, per request: next statement
    sphone,         \* getOrCreateAccountSalt, per request: user.phoneNumber
    ssalt,          \* getOrCreateAccountSalt, per request: the generated salt
    sresponse,      \* getOrCreateAccountSalt, per request: last HTTP response
    sawRow,         \* history: the phone's row existed when the request began
    saltCalls,      \* number of getOrCreateAccountSalt requests begun so far
    encrypted_messages, \* table encrypted_messages: set of rows
    message_delivery,   \* table message_delivery: set of rows
    deliveryId,     \* AUTOINCREMENT counter of message_delivery.id
    R2_MESSAGES,    \* bucket R2_MESSAGES: set of objects [key, body]
    mpc,            \* message handlers, per request: next statement
    mreq,           \* message handlers, per request: the request
    mnow,           \* message handlers, per request: const now = Date.now()
    mmessage,       \* deleteMessage, per request: the row read by the first SELECT
    mleft,          \* sendMessage, per request: recipients whose delivery row is to insert
    mresponse,      \* message handlers, per request: last HTTP response
    mrows,          \* getInbox, per request: result.results
    minbox,         \* getInbox, per request: body of the last response
    pdevices,       \* sendPushNotifications, per request: devices still to push to
    presponse,      \* sendPushNotifications, per request: the device pushed to and
                    \* the status of the APNs response (0: fetch threw)
    msgCalls,       \* number of message requests begun so far
    cpc,            \* cleanupExpiredMessages: next statement
    cnow,           \* cleanupExpiredMessages: const now = Date.now()
    cexpired,       \* cleanupExpiredMessages: r2 keys of expiredMessages still to delete
    sweeps,         \* number of cleanupExpiredMessages runs begun so far
    requests,       \* InMemoryRateLimiter.requests: the records, by key
    lpc,            \* rate limit middleware: next statement
    lreq,           \* rate limit middleware: the request
    lresult,        \* rate limit middleware: result of rateLimiter.check
    lresponse,      \* rate limit middleware: outcome and headers of the last request
    served,         \* history: per path and caller, the requests passed on to the
                    \* handlers since the clock last advanced
    rateCalls,      \* number of requests that entered the rate limit middleware
    rateTicks,      \* number of clock advances between those requests
    dpc,            \* registerDevice, per request: next statement
    dreq,           \* registerDevice, per request: the caller and the body
    dnow,           \* registerDevice, per request: const now = Date.now()
    dexisting,      \* registerDevice, per request: the row of the first SELECT
    dresponse,      \* device handlers, per request: status of the last response
    devCalls,       \* number of device requests begun so far
    cursor,         \* polling recipient: the largest created_at it has received
    received,       \* polling recipient: the message_ids it has received
    polling         \* polling recipient: the slot that serves its getInbox

vars == <<jar_receipts, jar_members, devices, now, pc, jarId, receiptBytes,
          signatureBytes, senderPublicKey, isMember, attempt,
          authoritativeSequence, response, startMax, overlapsSame,
          calls, phone_to_did, rpc, rjar, rphone, rquery, requesterDid,
          rresponse, reads, account_salts, spc, sphone, ssalt, sresponse,
          sawRow, saltCalls, encrypted_messages, message_delivery,
          deliveryId, R2_MESSAGES, mpc, mreq, mnow, mmessage, mleft, mresponse,
          mrows, minbox, pdevices, presponse,
          msgCalls, cpc, cnow, cexpired, sweeps,
          requests, lpc, lreq, lresult, lresponse, served, rateCalls, rateTicks,
          dpc, dreq, dnow, dexisting, dresponse, devCalls,
          cursor, received, polling>>

\* The state of the handlers other than storeJarReceipt.
readVars == <<rpc, rjar, rphone, rquery, requesterDid, rresponse, reads>>
saltVars == <<account_salts, spc, sphone, ssalt, sresponse, sawRow, saltCalls>>
msgTables == <<encrypted_messages, message_delivery, deliveryId, R2_MESSAGES>>
msgLocals == <<mpc, mreq, mnow, mmessage, mleft, mresponse, mrows, minbox,
               pdevices, presponse, msgCalls>>
sweepVars == <<cpc, cnow, cexpired, sweeps>>
msgVars == <<msgTables, msgLocals, sweepVars>>
rateVars == <<requests, lpc, lreq, lresult, lresponse, served, rateCalls,
             rateTicks>>
extVars == <<readVars, saltVars, msgVars>>
regVars == <<dpc, dreq, dnow, dexisting, dresponse, devCalls>>
pollVars == <<cursor, received, polling>>
auxVars == <<regVars, pollVars>>

----------------------------------------------------------------------------
(* Bounds *)

MaxCalls == 4
MaxDevCalls == 2
MaxClock == 2

Procs == {"p1", "p2"}
Jars == {"j1"}
Keys == {"k1", "k2"}
DeviceIds == {"d1", "d2"}

----------------------------------------------------------------------------
(* Values *)

Null == <<>>
Some(v) == <<v>>

Did(id) == [scheme |-> "did:phone:", id |-> id]
NoDid == [scheme |-> "", id |-> ""]
DIDs == {Did("a"), Did("b")}
OtherDid(d) == IF d = Did("a") THEN Did("b") ELSE Did("a")

\* payload: enc = "bytes" (nested CBOR byte string), "map" (nested map) or
\* "none" (field absent); member = the memberDID / member_did entry, or NoDid.
Payload(enc, member) == [enc |-> enc, member |-> member]

\* receipt_data: cbor = FALSE stands for bytes that are not a CBOR map.
Receipt(type, sender, payload) ==
    [cbor |-> TRUE, receipt_type |-> type, sender_did |-> sender,
     timestamp |-> 1, payload |-> payload]
Garbage == [cbor |-> FALSE, receipt_type |-> "", sender_did |-> NoDid,
            timestamp |-> 0, payload |-> Payload("none", NoDid)]
EmptyBytes == [cbor |-> FALSE, receipt_type |-> "empty", sender_did |-> NoDid,
               timestamp |-> 0, payload |-> Payload("none", NoDid)]

\* An Ed25519 signature is determined by the signing key and the signed bytes.
Sign(key, bytes) == [signer |-> key, msg |-> bytes]
EmptySig == [signer |-> "", msg |-> EmptyBytes]

NoResponse == [status |-> 0, sequence_number |-> 0]

\* A query parameter: absent, a string parseInt turns into NaN, or a number.
Absent == [given |-> FALSE, num |-> FALSE, val |-> 0]
NotANumber == [given |-> TRUE, num |-> FALSE, val |-> 0]
Num(n) == [given |-> TRUE, num |-> TRUE, val |-> n]

Query(after, limit, from, to) ==
    [after |-> after, limit |-> limit, from |-> from, to |-> to]
NoQuery == Query(Absent, Absent, Absent, Absent)

NoRead == [status |-> 0, receipts |-> <<>>]

\* A request to the message handlers.  caller is the DID of the authenticated
\* user; deleteMessage uses message_id only, sendMessage the body fields,
\* getInbox the query parameters did, since and limit, markDelivered
\* message_id and recipient_did.
MessageRequest(op, caller, id, sender, device, to, payload, did, since, limit) ==
    [op |-> op, caller |-> caller, message_id |-> id, sender_did |-> sender,
     sender_device_id |-> device, recipient_dids |-> to,
     encrypted_payload |-> payload, did |-> did, since |-> since,
     limit |-> limit]
SendRequest(caller, id, sender, device, recipients, payload) ==
    MessageRequest("send", caller, id, sender, device, recipients, payload,
                   NoDid, Absent, Absent)
DeleteRequest(caller, id) ==
    MessageRequest("delete", caller, id, NoDid, "", <<>>, "", NoDid, Absent,
                   Absent)
InboxRequest(caller, did, since, limit) ==
    MessageRequest("inbox", caller, "", NoDid, "", <<>>, "", did, since, limit)
MarkRequest(caller, id, recipient) ==
    MessageRequest("mark", caller, id, NoDid, "", <<>>, "", recipient, Absent,
                   Absent)
NoMessageRequest ==
    MessageRequest("", NoDid, "", NoDid, "", <<>>, "", NoDid, Absent, Absent)

\* The body of a getInbox response: messages, count, has_more.
InboxBody(messages, hasMore) ==
    [messages |-> messages, count |-> Len(messages), has_more |-> hasMore]
NoInbox == InboxBody(<<>>, FALSE)

\* A device row selected for a push and the status APNs answered with.
PushResponse(device, status) == [device_id |-> device, status |-> status]
NoPush == PushResponse("", 0)

\* The columns deleteMessage selects: sender_did, r2_key.
SelectedMessage(sender, key) == [sender_did |-> sender, r2_key |-> key]
NoMessage == SelectedMessage(NoDid, Null)

\* utils/crypto generateSalt: 32 random bytes; n names the draw.
Salt(n) == [random |-> n]
NoSalt == Salt(0)

SaltResponse(status, salt, created) ==
    [status |-> status, salt |-> salt, created |-> created]
NoSaltResponse == SaltResponse(0, NoSalt, FALSE)
Response(status, seq) == [status |-> status, sequence_number |-> seq]

----------------------------------------------------------------------------
(* Pure helpers *)

\* utils/cbor extractSenderDid: decode, require a text sender_did that starts
\* with did:phone:.  ok = FALSE stands for the thrown error.
extractSenderDid(bytes) ==
    IF ~bytes.cbor THEN [ok |-> FALSE, did |-> NoDid]
    ELSE IF bytes.sender_did = NoDid THEN [ok |-> FALSE, did |-> NoDid]
    ELSE IF bytes.sender_did.scheme # "did:phone:" THEN [ok |-> FALSE, did |-> NoDid]
    ELSE [ok |-> TRUE, did |-> bytes.sender_did]

\* utils/cid computeCID: "b" + base32(0x01 0x71 0x12 0x20 sha256(bytes)).
\* SHA-256 is taken as collision free: the digest is determined by the bytes.
computeCID(bytes) ==
    [multibase |-> "b", version |-> 1, codec |-> 113,
     hashType |-> 18, hashLen |-> 32, digestOf |-> bytes]

verifyCID(cid, bytes) == computeCID(bytes) = cid

\* crypto.subtle.verify('Ed25519', key, signature, message)
verifySignature_KeyOnly(publicKey, message, signature) ==
    signature.signer = publicKey

verifySignature(publicKey, message, signature) ==
    /\ signature.signer = publicKey
    /\ signature.msg = message

\* SELECT pubkey_ed25519 FROM devices WHERE owner_did = ? AND status = 'active'
\* ORDER BY registered_at DESC LIMIT 1.  The result is the set of keys the
\* query may return: empty for no row, several when registered_at ties.
getSenderPublicKey_Oldest(devs, senderDid) ==
    LET act == {d \in devs : d.owner_did = senderDid /\ d.status = "active"}
    IN  {d.pubkey_ed25519 : d \in {x \in act :
            \A y \in act : y.registered_at >= x.registered_at}}

getSenderPublicKey(devs, senderDid) ==
    LET act == {d \in devs : d.owner_did = senderDid /\ d.status = "active"}
    IN  {d.pubkey_ed25519 : d \in {x \in act :
            \A y \in act : y.registered_at <= x.registered_at}}

\* SELECT 1 FROM jar_members WHERE jar_id = ? AND member_did = ? AND status = 'active'
isActiveMember_AnyStatus(members, jar, did) ==
    \E m \in members : m.jar_id = jar /\ m.member_did = did

isActiveMember(members, jar, did) ==
    \E m \in members : m.jar_id = jar /\ m.member_did = did /\ m.status = "active"

\* COALESCE(MAX(sequence_number) WHERE jar_id = ?, 0)
MaxSeq(receipts, jar) ==
    LET s == {r.sequence_number : r \in {x \in receipts : x.jar_id = jar}}
    IN  IF s = {} THEN 0 ELSE CHOOSE m \in s : \A n \in s : n <= m

\* The sequence_number the INSERT of tryInsertReceipt computes.
NextSequence_CoalesceOne(receipts, jar) ==
    (IF {x \in receipts : x.jar_id = jar} = {} THEN 1 ELSE MaxSeq(receipts, jar)) + 1

NextSequence(receipts, jar) == MaxSeq(receipts, jar) + 1

\* PRIMARY KEY (jar_id, sequence_number) and UNIQUE INDEX idx_jar_receipts_cid
UniqueViolation(receipts, row) ==
    \E r \in receipts :
        \/ (r.jar_id = row.jar_id /\ r.sequence_number = row.sequence_number)
        \/ r.receipt_cid = row.receipt_cid

\* SELECT sequence_number FROM jar_receipts WHERE receipt_cid = ?  (0 = no row)
SequenceOfCid(receipts, cid) ==
    LET rows == {r \in receipts : r.receipt_cid = cid}
    IN  IF rows = {} THEN 0 ELSE (CHOOSE r \in rows : TRUE).sequence_number

----------------------------------------------------------------------------
(* Materialization: utils/receiptProcessor processJarReceipt *)

MemberRow(jar, did, status, role, addedAt, removedAt, addedBy, removedBy) ==
    [jar_id |-> jar, member_did |-> did, status |-> status, role |-> role,
     added_at |-> addedAt, removed_at |-> removedAt,
     added_by_receipt_cid |-> addedBy, removed_by_receipt_cid |-> removedBy]

\* INSERT OR REPLACE INTO jar_members (jar_id, member_did, status, role,
\* added_at, added_by_receipt_cid): the row with the same primary key is
\* deleted, the columns not listed take their default NULL.
InsertOrReplaceMember_Upsert(members, jar, did, role, addedAt, cid) ==
    IF \E m \in members : m.jar_id = jar /\ m.member_did = did
    THEN {IF m.jar_id = jar /\ m.member_did = did
            THEN [m EXCEPT !.status = "active", !.role = role,
                           !.added_at = addedAt,
                           !.added_by_receipt_cid = Some(cid)]
            ELSE m : m \in members}
    ELSE members \cup {MemberRow(jar, did, "active", role, addedAt, Null, Some(cid), Null)}

InsertOrReplaceMember(members, jar, did, role, addedAt, cid) ==
    {m \in members : ~(m.jar_id = jar /\ m.member_did = did)}
        \cup {MemberRow(jar, did, "active", role, addedAt, Null, Some(cid), Null)}

\* UPDATE jar_members SET status = 'active' WHERE jar_id = ? AND member_did = ?
UpdateMemberActive(members, jar, did) ==
    {IF m.jar_id = jar /\ m.member_did = did
        THEN [m EXCEPT !.status = "active"] ELSE m : m \in members}

\* UPDATE jar_members SET status = 'removed', removed_at = ?,
\* removed_by_receipt_cid = ? WHERE jar_id = ? AND member_did = ?
UpdateMemberRemoved(members, jar, did, removedAt, cid) ==
    {IF m.jar_id = jar /\ m.member_did = did
        THEN [m EXCEPT !.status = "removed", !.removed_at = Some(removedAt),
                       !.removed_by_receipt_cid = Some(cid)]
        ELSE m : m \in members}

\* payload.memberDID || payload.member_did read on the payload as it is in the
\* decoded receipt: a nested map has the entry, a byte string or an absent
\* payload has not.
MemberOfMapPayload(payload) ==
    IF payload.enc = "map" THEN payload.member ELSE NoDid

\* decode(payloadBytes) of jar.member_added: only a byte-string payload decodes
\* to a map with the entry.
MemberOfBytesPayload(payload) ==
    IF payload.enc = "bytes" THEN payload.member ELSE NoDid

processJarReceipt(members, jar, receiptCid, bytes, sequenceNumber) ==
    IF ~bytes.cbor THEN members
    ELSE CASE bytes.receipt_type = "jar.created" ->
                InsertOrReplaceMember(members, jar, bytes.sender_did, "owner",
                                      bytes.timestamp, receiptCid)
           [] bytes.receipt_type = "jar.member_added" ->
                IF MemberOfBytesPayload(bytes.payload) = NoDid THEN members
                ELSE InsertOrReplaceMember(members, jar,
                        MemberOfBytesPayload(bytes.payload), "member",
                        bytes.timestamp, receiptCid)
           [] bytes.receipt_type = "jar.invite_accepted" ->
                IF bytes.payload.enc = "none" THEN members
                ELSE UpdateMemberActive(members, jar,
                        IF MemberOfMapPayload(bytes.payload) = NoDid
                            THEN bytes.sender_did
                            ELSE MemberOfMapPayload(bytes.payload))
           [] bytes.receipt_type = "jar.member_removed" ->
                IF MemberOfMapPayload(bytes.payload) = NoDid THEN members
                ELSE UpdateMemberRemoved(members, jar,
                        MemberOfMapPayload(bytes.payload),
                        bytes.timestamp, receiptCid)
           [] OTHER -> members

----------------------------------------------------------------------------
(* Requests *)

ReceiptRow(jar, seq, bytes, sig) ==
    [jar_id |-> jar, sequence_number |-> seq, receipt_cid |-> computeCID(bytes),
     receipt_data |-> bytes, signature |-> sig,
     sender_did |-> extractSenderDid(bytes).did]

DeviceRow(id, owner, key, token, status, registeredAt) ==
    [device_id |-> id, owner_did |-> owner, pubkey_ed25519 |-> key,
     apns_token |-> token, status |-> status, registered_at |-> registeredAt]

\* utils/phone_encryption encryptPhone: AES-256-GCM under the server key with
\* a nonce derived from the phone, so the ciphertext is determined by the
\* phone and differs for different phones.
encryptPhone(phone) == [aesGcm |-> phone]

PhoneRow(phone, did) == [encrypted_phone |-> encryptPhone(phone), did |-> did]

\* INSERT INTO phone_to_did ... ON CONFLICT(encrypted_phone) DO UPDATE SET did = ?
UpsertPhone(map, phone, did) ==
    {r \in map : r.encrypted_phone # encryptPhone(phone)} \cup {PhoneRow(phone, did)}

\* The device key each DID signs with in the receipt-log specification.
KeyOf(did) == IF did = Did("a") THEN "k1" ELSE "k2"

\* Receipts of the receipt-log specification: the membership receipts in the
\* payload encoding their materialization reads.  Either DID may create the
\* jar and add the other; the removal is the one of "a" by "b".
LogReceipts ==
    {Receipt("jar.created", s, Payload("map", OtherDid(s))) : s \in DIDs}
    \cup {Receipt("jar.member_added", s, Payload("bytes", OtherDid(s))) : s \in DIDs}
    \cup {Receipt("jar.member_removed", Did("b"), Payload("map", Did("a")))}

\* Requests of the receipt-log specification: correctly signed receipts.
Requests ==
    {[receipt_data |-> r, signature |-> Sign(KeyOf(r.sender_did), r)] :
        r \in LogReceipts}

Idle(p) == pc[p] \in {"idle", "done"}

InFlight(p) == ~Idle(p)

\* The handler returns: the response is sent and the request's locals are gone.
Respond(p, status, seq) ==
    /\ pc' = [pc EXCEPT ![p] = "done"]
    /\ response' = [response EXCEPT ![p] = Response(status, seq)]
    /\ jarId' = [jarId EXCEPT ![p] = "j1"]
    /\ receiptBytes' = [receiptBytes EXCEPT ![p] = EmptyBytes]
    /\ signatureBytes' = [signatureBytes EXCEPT ![p] = EmptySig]
    /\ senderPublicKey' = [senderPublicKey EXCEPT ![p] = ""]
    /\ isMember' = [isMember EXCEPT ![p] = FALSE]
    /\ attempt' = [attempt EXCEPT ![p] = 0]
    /\ authoritativeSequence' = [authoritativeSequence EXCEPT ![p] = 0]
    /\ startMax' = [startMax EXCEPT ![p] = 0]
    /\ overlapsSame' = [overlapsSame EXCEPT ![p] = FALSE]

\* The request stays in the handler: pc moves on, the named locals change.
Continue(p, next) ==
    /\ pc' = [pc EXCEPT ![p] = next]
    /\ UNCHANGED <<response, jarId, receiptBytes, signatureBytes, startMax,
                   overlapsSame>>

----------------------------------------------------------------------------
(* storeJarReceipt, one action per database statement *)

maxRetries == 5

BadRequest(req) ==
    \/ req.receipt_data = EmptyBytes
    \/ req.signature = EmptySig
    \/ ~extractSenderDid(req.receipt_data).ok
    \/ ~verifyCID(computeCID(req.receipt_data), req.receipt_data)

\* The request arrives: c.req.param('jarId') and the body of c.req.json().
Begin(p, jar, req) ==
    /\ Idle(p)
    /\ calls < MaxCalls
    /\ calls' = calls + 1
    /\ pc' = [pc EXCEPT ![p] = "parse"]
    /\ response' = [response EXCEPT ![p] = NoResponse]
    /\ jarId' = [jarId EXCEPT ![p] = jar]
    /\ receiptBytes' = [receiptBytes EXCEPT ![p] = req.receipt_data]
    /\ signatureBytes' = [signatureBytes EXCEPT ![p] = req.signature]
    /\ startMax' = [startMax EXCEPT ![p] = MaxSeq(jar_receipts, jar)]
    /\ LET same == {q \in Procs \ {p} :
                      InFlight(q) /\ receiptBytes[q] = req.receipt_data}
       IN  overlapsSame' = [q \in Procs |->
                IF q = p THEN same # {}
                ELSE IF q \in same THEN TRUE ELSE overlapsSame[q]]
    /\ UNCHANGED <<senderPublicKey, isMember, attempt, authoritativeSequence>>
    /\ UNCHANGED <<jar_receipts, jar_members, devices, now>>
    /\ UNCHANGED <<phone_to_did, rateVars, auxVars, extVars>>

\* Presence checks, extractSenderDid, computeCID / verifyCID: everything
\* before the first database statement.
ParseRequest(p) ==
    /\ pc[p] = "parse"
    /\ IF BadRequest([receipt_data |-> receiptBytes[p],
                      signature |-> signatureBytes[p]])
       THEN Respond(p, 400, 0)
       ELSE /\ Continue(p, "checkExisting")
            /\ UNCHANGED <<senderPublicKey, isMember, attempt,
                           authoritativeSequence>>
    /\ UNCHANGED <<jar_receipts, jar_members, devices, now, calls>>
    /\ UNCHANGED <<phone_to_did, rateVars, auxVars, extVars>>

StoreBegin(p) == \E jar \in Jars, req \in Requests : Begin(p, jar, req)

\* SELECT sequence_number FROM jar_receipts WHERE receipt_cid = ?  (idempotency)
ExistingSequence_Skipped(receipts, jar, cid) == 0

ExistingSequence(receipts, jar, cid) == SequenceOfCid(receipts, cid)

CheckExisting(p) ==
    /\ pc[p] = "checkExisting"
    /\ LET existing == ExistingSequence(jar_receipts, jarId[p],
                                        computeCID(receiptBytes[p]))
       IN  IF existing # 0 THEN Respond(p, 200, existing)
           ELSE /\ Continue(p, "getKey")
                /\ UNCHANGED <<senderPublicKey, isMember, attempt,
                               authoritativeSequence>>
    /\ UNCHANGED <<jar_receipts, jar_members, devices, now, calls>>
    /\ UNCHANGED <<phone_to_did, rateVars, auxVars, extVars>>

\* getSenderPublicKey, then verifySignature on the request's own bytes.
VerifySender(p) ==
    /\ pc[p] = "getKey"
    /\ LET keys == getSenderPublicKey(devices, extractSenderDid(receiptBytes[p]).did)
       IN  IF keys = {}
           THEN Respond(p, 403, 0)
           ELSE \E k \in keys :
                IF verifySignature(k, receiptBytes[p], signatureBytes[p])
                THEN /\ Continue(p, "checkMember")
                     /\ senderPublicKey' = [senderPublicKey EXCEPT ![p] = k]
                     /\ UNCHANGED <<isMember, attempt, authoritativeSequence>>
                ELSE Respond(p, 403, 0)
    /\ UNCHANGED <<jar_receipts, jar_members, devices, now, calls>>
    /\ UNCHANGED <<phone_to_did, rateVars, auxVars, extVars>>

\* isActiveMember(db, jarId, senderDid)
CheckMember(p) ==
    /\ pc[p] = "checkMember"
    /\ LET m == isActiveMember(jar_members, jarId[p],
                               extractSenderDid(receiptBytes[p]).did)
       IN  /\ isMember' = [isMember EXCEPT ![p] = m]
           /\ Continue(p, IF m THEN "insert" ELSE "checkFirst")
    /\ UNCHANGED <<senderPublicKey, attempt, authoritativeSequence>>
    /\ UNCHANGED <<jar_receipts, jar_members, devices, now, calls>>
    /\ UNCHANGED <<phone_to_did, rateVars, auxVars, extVars>>

\* Not a member: SELECT COALESCE(MAX(sequence_number), 0); reject unless 0.
CheckFirstReceipt(p) ==
    /\ pc[p] = "checkFirst"
    /\ IF MaxSeq(jar_receipts, jarId[p]) > 0
       THEN Respond(p, 403, 0)
       ELSE /\ Continue(p, "insert")
            /\ UNCHANGED <<senderPublicKey, isMember, attempt,
                           authoritativeSequence>>
    /\ UNCHANGED <<jar_receipts, jar_members, devices, now, calls>>
    /\ UNCHANGED <<phone_to_did, rateVars, auxVars, extVars>>

\* A null from tryInsertReceipt: next loop iteration, or the throw after the
\* loop, which the outer catch answers with 500.
RetryOrFail(p) ==
    IF attempt[p] + 1 < maxRetries
    THEN /\ Continue(p, "insert")
         /\ attempt' = [attempt EXCEPT ![p] = attempt[p] + 1]
         /\ UNCHANGED <<senderPublicKey, isMember, authoritativeSequence>>
    ELSE Respond(p, 500, 0)

\* tryInsertReceipt, first statement: INSERT ... VALUES (?, COALESCE(MAX)+1, ...)
TryInsertReceipt(p) ==
    /\ pc[p] = "insert"
    /\ LET row == ReceiptRow(jarId[p], NextSequence(jar_receipts, jarId[p]),
                             receiptBytes[p], signatureBytes[p])
       IN  IF UniqueViolation(jar_receipts, row)
           THEN /\ RetryOrFail(p)
                /\ UNCHANGED jar_receipts
           ELSE /\ jar_receipts' = jar_receipts \cup {row}
                /\ Continue(p, "fetchSeq")
                /\ UNCHANGED <<senderPublicKey, isMember, attempt,
                               authoritativeSequence>>
    /\ UNCHANGED <<jar_members, devices, now, calls>>
    /\ UNCHANGED <<phone_to_did, rateVars, auxVars, extVars>>

\* tryInsertReceipt, second statement: SELECT sequence_number WHERE receipt_cid = ?
InsertedSequence_Max(receipts, jar, cid) == MaxSeq(receipts, jar)

InsertedSequence(receipts, jar, cid) == SequenceOfCid(receipts, cid)

\* return inserted?.sequence_number || null, and the loop's test of the result.
FetchSequence(p) ==
    /\ pc[p] = "fetchSeq"
    /\ LET seq == InsertedSequence(jar_receipts, jarId[p],
                                   computeCID(receiptBytes[p]))
       IN  IF seq # 0
           THEN /\ Continue(p, "process")
                /\ authoritativeSequence' = [authoritativeSequence EXCEPT ![p] = seq]
                /\ UNCHANGED <<senderPublicKey, isMember, attempt>>
           ELSE RetryOrFail(p)
    /\ UNCHANGED <<jar_receipts, jar_members, devices, now, calls>>
    /\ UNCHANGED <<phone_to_did, rateVars, auxVars, extVars>>

\* processJarReceipt (one statement on jar_members), then the 200 response.
ProcessReceipt_Rollback(p) ==
    /\ pc[p] = "process"
    /\ LET members == processJarReceipt(jar_members, jarId[p],
                          computeCID(receiptBytes[p]), receiptBytes[p],
                          authoritativeSequence[p])
       IN  IF members = jar_members
           THEN /\ jar_receipts' = {r \in jar_receipts :
                        r.receipt_cid # computeCID(receiptBytes[p])}
                /\ UNCHANGED jar_members
                /\ Respond(p, 500, 0)
           ELSE /\ jar_members' = members
                /\ UNCHANGED jar_receipts
                /\ Respond(p, 200, authoritativeSequence[p])
    /\ UNCHANGED <<devices, now, calls>>
    /\ UNCHANGED <<phone_to_did, rateVars, auxVars, extVars>>

ProcessReceipt(p) ==
    /\ pc[p] = "process"
    /\ jar_members' = processJarReceipt(jar_members, jarId[p],
                          computeCID(receiptBytes[p]), receiptBytes[p],
                          authoritativeSequence[p])
    /\ Respond(p, 200, authoritativeSequence[p])
    /\ UNCHANGED <<jar_receipts, devices, now, calls>>
    /\ UNCHANGED <<phone_to_did, rateVars, auxVars, extVars>>

----------------------------------------------------------------------------
(* Receipt-log specification: both DIDs hold one registered device. *)

InitRead ==
    /\ rpc = "idle"
    /\ rjar = "j1"
    /\ rphone = ""
    /\ rquery = NoQuery
    /\ requesterDid = NoDid
    /\ rresponse = NoRead
    /\ reads = 0

InitSalt ==
    /\ account_salts = {}
    /\ spc = [p \in Procs |-> "idle"]
    /\ sphone = [p \in Procs |-> ""]
    /\ ssalt = [p \in Procs |-> NoSalt]
    /\ sresponse = [p \in Procs |-> NoSaltResponse]
    /\ sawRow = [p \in Procs |-> FALSE]
    /\ saltCalls = 0

InitMsg ==
    /\ encrypted_messages = {}
    /\ message_delivery = {}
    /\ deliveryId = 0
    /\ R2_MESSAGES = {}
    /\ mpc = [p \in Procs |-> "idle"]
    /\ mreq = [p \in Procs |-> NoMessageRequest]
    /\ mnow = [p \in Procs |-> 0]
    /\ mmessage = [p \in Procs |-> NoMessage]
    /\ mleft = [p \in Procs |-> <<>>]
    /\ mresponse = [p \in Procs |-> 0]
    /\ mrows = [p \in Procs |-> <<>>]
    /\ minbox = [p \in Procs |-> NoInbox]
    /\ pdevices = [p \in Procs |-> {}]
    /\ presponse = [p \in Procs |-> NoPush]
    /\ msgCalls = 0
    /\ cpc = "idle"
    /\ cnow = 0
    /\ cexpired = {}
    /\ sweeps = 0

----------------------------------------------------------------------------
(* Rate limiting: middleware/ratelimit.ts *)

\* In the rate limiter's specifications the clock `now` counts milliseconds.
MaxRateCalls == 4
MaxRateTicks == 2
MaxApiCalls == 11

RateConfig(path, limit, period) ==
    [path |-> path, limit |-> limit, period |-> period]

\* const RATE_LIMITS: Record<string, RateLimitConfig>
RATE_LIMITS ==
    {RateConfig("/api/lookup/did", 20, 60),
     RateConfig("/api/devices/register", 5, 300),
     RateConfig("/api/devices/list", 50, 60),
     RateConfig("/api/messages/send", 100, 60),
     RateConfig("/api/messages/inbox", 200, 60)}

\* Routes that mount rateLimit(config) themselves, as the test suite does.
RateRoutes ==
    {RateConfig("/test", 2, 60),
     RateConfig("/register", 3, 300)}

\* The limits the interface table of the service gives for its endpoints.
InterfaceLimits ==
    {RateConfig("/api/account/salt", 10, 60),
     RateConfig("/api/lookup/batch", 20, 60),
     RateConfig("/api/devices/register", 5, 300)}

\* A request as the rate limit middleware meets it: caller is the identity its
\* token proves, user is c.get('user') at that moment, ip the CF-Connecting-IP
\* header.
RateRequest(path, caller, user, ip) ==
    [path |-> path, caller |-> caller, user |-> user, ip |-> ip]
NoRateRequest == RateRequest("", Null, Null, Null)

\* app.use('/api/*', autoRateLimit()) is registered before
\* app.use('/api/*', requireAuth): the user is not set yet when it runs.
ApiRequest(path, uid, ip) == RateRequest(path, Some(uid), Null, Some(ip))

\* A route whose handlers set the user before rateLimit(config) runs.
RouteRequest(path, user, ip) == RateRequest(path, user, user, ip)

\* autoRateLimit: const config = RATE_LIMITS[path]; a rateLimit(config) route
\* has its own.
ConfigsOf(path) ==
    {cfg \in RATE_LIMITS \cup RateRoutes : cfg.path = path}

\* const identifier = user?.uid || c.req.header('CF-Connecting-IP') || 'anonymous'
Identifier(req) ==
    IF req.user # Null THEN req.user[1]
    ELSE IF req.ip # Null THEN req.ip[1]
    ELSE "anonymous"

\* const key = `${path}:${identifier}`; no path holds a colon, so the pair
\* stands for the string.
RateKey(req) == <<req.path, Identifier(req)>>

\* The principal of a request: the caller if authenticated, else the client
\* address, else anonymous.
Principal(req) ==
    IF req.caller # Null THEN req.caller[1]
    ELSE IF req.ip # Null THEN req.ip[1]
    ELSE "anonymous"

RateRecord(key, count, resetAt) ==
    [key |-> key, count |-> count, resetAt |-> resetAt]

CheckResult(reqs, allowed, remaining, resetAt) ==
    [requests |-> reqs, allowed |-> allowed, remaining |-> remaining,
     resetAt |-> resetAt]
NoCheckResult == CheckResult({}, FALSE, 0, 0)

check_AllowsAtLimit(reqs, key, limit, period, t) ==
    LET found == {r \in reqs : r.key = key}
        others == reqs \ found
    IN  IF found = {} \/ (\E r \in found : t >= r.resetAt)
    THEN CheckResult(others \cup {RateRecord(key, 1, t + period * 1000)},
                     TRUE, limit - 1, t + period * 1000)
    ELSE LET existing == CHOOSE r \in found : TRUE
         IN  IF existing.count <= limit
             THEN CheckResult(
                      others \cup {[existing EXCEPT !.count = existing.count + 1]},
                      TRUE, limit - (existing.count + 1), existing.resetAt)
             ELSE CheckResult(reqs, FALSE, 0, existing.resetAt)

\* InMemoryRateLimiter.check(key, limit, period) at Date.now() = t, on the
\* records reqs: the records afterwards and the result.
check(reqs, key, limit, period, t) ==
    LET found == {r \in reqs : r.key = key}
        others == reqs \ found
    IN  IF found = {} \/ (\E r \in found : t >= r.resetAt)
        THEN CheckResult(others \cup {RateRecord(key, 1, t + period * 1000)},
                         TRUE, limit - 1, t + period * 1000)
        ELSE LET existing == CHOOSE r \in found : TRUE
             IN  IF existing.count < limit
                 THEN CheckResult(
                          others \cup {[existing EXCEPT !.count = existing.count + 1]},
                          TRUE, limit - (existing.count + 1), existing.resetAt)
                 ELSE CheckResult(reqs, FALSE, 0, existing.resetAt)

\* Math.ceil(a / b) for b > 0.
Ceil(a, b) == -((-a) \div b)

\* What the middleware answered: passed on to the handlers (status 200) or
\* thrown Errors.RateLimited (429), with the X-RateLimit-* headers when a limit
\* applies and the retryAfter computed on rejection.
RateResponse(status, limited, limit, remaining, reset, retryAfter) ==
    [status |-> status, limited |-> limited, limit |-> limit,
     remaining |-> remaining, reset |-> reset, retryAfter |-> retryAfter]
NoRateResponse == RateResponse(0, FALSE, 0, 0, 0, 0)

RatePrincipals == {"u1", "u2", "1.1.1.1", "anonymous"}
RatePaths == {cfg.path : cfg \in RATE_LIMITS \cup RateRoutes \cup InterfaceLimits}

\* The body of POST /api/devices/register and the phone of the caller's token
\* ("" stands for a token without phone number); valid tells whether
\* device_id, device_name, owner_did and the keys pass their schemas.
DeviceRequest(caller, valid, id, name, owner, phone, x25519, ed25519, token) ==
    [caller |-> caller, valid |-> valid, device_id |-> id, device_name |-> name,
     owner_did |-> owner, phone_number |-> phone, pubkey_x25519 |-> x25519,
     pubkey_ed25519 |-> ed25519, apns_token |-> token]
NoDeviceRequest == DeviceRequest("", FALSE, "", "", NoDid, "", "", "", Null)

InitReg ==
    /\ dpc = [p \in Procs |-> "idle"]
    /\ dreq = [p \in Procs |-> NoDeviceRequest]
    /\ dnow = [p \in Procs |-> 0]
    /\ dexisting = [p \in Procs |-> FALSE]
    /\ dresponse = [p \in Procs |-> 0]
    /\ devCalls = 0

InitPoll ==
    /\ cursor = 0
    /\ received = {}
    /\ polling = ""

InitRate ==
    /\ requests = {}
    /\ lpc = "idle"
    /\ lreq = NoRateRequest
    /\ lresult = NoCheckResult
    /\ lresponse = NoRateResponse
    /\ served = [k \in RatePaths \X RatePrincipals |-> 0]
    /\ rateCalls = 0
    /\ rateTicks = 0

InitCalls ==
    /\ pc = [p \in Procs |-> "idle"]
    /\ jarId = [p \in Procs |-> "j1"]
    /\ receiptBytes = [p \in Procs |-> EmptyBytes]
    /\ signatureBytes = [p \in Procs |-> EmptySig]
    /\ senderPublicKey = [p \in Procs |-> ""]
    /\ isMember = [p \in Procs |-> FALSE]
    /\ attempt = [p \in Procs |-> 0]
    /\ authoritativeSequence = [p \in Procs |-> 0]
    /\ response = [p \in Procs |-> NoResponse]
    /\ startMax = [p \in Procs |-> 0]
    /\ overlapsSame = [p \in Procs |-> FALSE]
    /\ calls = 0
    /\ InitRead
    /\ InitSalt
    /\ InitMsg
    /\ InitRate
    /\ InitReg
    /\ InitPoll

Init ==
    /\ jar_receipts = {}
    /\ jar_members = {}
    /\ devices = {DeviceRow("d1", Did("a"), "k1", Some("t1"), "active", 1),
                  DeviceRow("d2", Did("b"), "k2", Some("t2"), "active", 1)}
    /\ now = 1
    /\ phone_to_did = {PhoneRow("+1", Did("a")), PhoneRow("+2", Did("b"))}
    /\ InitCalls

Next ==
    \E p \in Procs :
        \/ StoreBegin(p)
        \/ ParseRequest(p)
        \/ CheckExisting(p)
        \/ VerifySender(p)
        \/ CheckMember(p)
        \/ CheckFirstReceipt(p)
        \/ TryInsertReceipt(p)
        \/ FetchSequence(p)
        \/ ProcessReceipt(p)

Spec == Init /\ [][Next]_vars

----------------------------------------------------------------------------
(* Device table operations *)

\* handlers/devices registerDevice by the caller authenticated as phone, with
\* a body without apns_token, database part: SELECT device_id, then UPDATE of
\* the keys and the token of an existing row (owner_did, status and
\* registered_at stay) or INSERT of a new active row with registered_at = now,
\* then the upsert of phone_to_did.
RegisterDeviceAs(id, owner, key, phone) ==
    /\ devices' =
        IF \E d \in devices : d.device_id = id
        THEN {IF d.device_id = id
              THEN [d EXCEPT !.pubkey_ed25519 = key, !.apns_token = Null]
              ELSE d : d \in devices}
        ELSE devices \cup {DeviceRow(id, owner, key, Null, "active", now)}
    /\ phone_to_did' = UpsertPhone(phone_to_did, phone, owner)
    /\ UNCHANGED <<jar_receipts, jar_members, now, pc, jarId, receiptBytes,
                   signatureBytes, senderPublicKey, isMember, attempt,
                   authoritativeSequence, response, startMax, overlapsSame,
                   calls>>
    /\ UNCHANGED <<rateVars, auxVars, extVars>>

\* The phone each DID was derived from.
PhoneOf(did) == IF did = Did("a") THEN "+1" ELSE "+2"

\* registerDevice by the holder of the DID's own phone.
RegisterDevice(id, owner, key) == RegisterDeviceAs(id, owner, key, PhoneOf(owner))

\* UPDATE devices SET apns_token = NULL, status = 'inactive' WHERE device_id = ?
DeactivateDevice(devs, id) ==
    {IF d.device_id = id
     THEN [d EXCEPT !.apns_token = Null, !.status = "inactive"]
     ELSE d : d \in devs}

\* sendPushNotifications on APNs status 410, for a push that some other
\* request scheduled.
MarkDeviceInactive(id) ==
    /\ \E d \in devices : d.device_id = id /\ d.status = "active"
    /\ devices' = DeactivateDevice(devices, id)
    /\ UNCHANGED <<jar_receipts, jar_members, now, pc, jarId, receiptBytes,
                   signatureBytes, senderPublicKey, isMember, attempt,
                   authoritativeSequence, response, startMax, overlapsSame,
                   calls>>
    /\ UNCHANGED <<phone_to_did, rateVars, auxVars, extVars>>

\* Date.now() advances.
Tick ==
    /\ now < MaxClock
    /\ now' = now + 1
    /\ UNCHANGED <<jar_receipts, jar_members, devices, pc, jarId, receiptBytes,
                   signatureBytes, senderPublicKey, isMember, attempt,
                   authoritativeSequence, response, startMax, overlapsSame,
                   calls>>
    /\ UNCHANGED <<phone_to_did, rateVars, auxVars, extVars>>

----------------------------------------------------------------------------
(* Device specification: devices come and go while receipts are submitted,   *)
(* with well-formed and ill-formed receipts and signatures.                  *)

GenesisA == Receipt("jar.created", Did("a"), Payload("map", Did("b")))
RenamedB == Receipt("jar.renamed", Did("b"), Payload("map", Did("a")))
AddedMapB == Receipt("jar.member_added", Did("b"), Payload("map", Did("a")))
NoSender == Receipt("jar.created", NoDid, Payload("map", Did("b")))
WebSender == Receipt("jar.created", [scheme |-> "did:web:", id |-> "a"],
                     Payload("map", Did("b")))

DevRequests ==
    UNION {{[receipt_data |-> r, signature |-> s] :
              s \in {Sign(k, r) : k \in Keys} \cup {Sign("k1", Garbage), EmptySig}} :
           r \in {GenesisA, RenamedB}}
    \cup {[receipt_data |-> r, signature |-> Sign("k1", r)] :
            r \in {Garbage, NoSender, WebSender, EmptyBytes}}
    \cup {[receipt_data |-> AddedMapB,
           signature |-> Sign(KeyOf(AddedMapB.sender_did), AddedMapB)]}

\* Requests are submitted one after the other; device operations interleave
\* with every statement of a request.
DevProcs == {"p1"}

StoreBeginDev(p) ==
    /\ calls < MaxDevCalls
    /\ \E jar \in Jars, req \in DevRequests : Begin(p, jar, req)

DevInit ==
    /\ jar_receipts = {}
    /\ jar_members = {}
    /\ devices = {}
    /\ now = 1
    /\ phone_to_did = {}
    /\ InitCalls

DevNext ==
    \/ \E id \in DeviceIds, owner \in DIDs, key \in Keys :
            RegisterDevice(id, owner, key)
    \/ \E id \in DeviceIds : MarkDeviceInactive(id)
    \/ Tick
    \/ \E p \in DevProcs :
        \/ StoreBeginDev(p)
        \/ ParseRequest(p)
        \/ CheckExisting(p)
        \/ VerifySender(p)
        \/ CheckMember(p)
        \/ CheckFirstReceipt(p)
        \/ TryInsertReceipt(p)
        \/ FetchSequence(p)
        \/ ProcessReceipt(p)

SpecDev == DevInit /\ [][DevNext]_vars

----------------------------------------------------------------------------
(* getJarReceipts, one action per database statement *)

MaxReads == 1
MaxReadStores == 3

DefaultLimit == 500
LimitCap == 1000

Min(a, b) == IF a < b THEN a ELSE b

\* ORDER BY sequence_number ASC
RECURSIVE Ascending(_)
Ascending(rows) ==
    IF rows = {} THEN <<>>
    ELSE LET lo == CHOOSE r \in rows :
                       \A x \in rows : r.sequence_number <= x.sequence_number
         IN  <<lo>> \o Ascending(rows \ {lo})

\* LIMIT n of SQLite: a negative n is no limit at all.
SqlLimit(rows, n) ==
    IF n < 0 THEN rows ELSE SubSeq(rows, 1, Min(n, Len(rows)))

\* WHERE jar_id = ? AND sequence_number > ? ORDER BY sequence_number ASC LIMIT ?
SelectAfter(receipts, jar, afterSeq, limit) ==
    SqlLimit(Ascending({r \in receipts :
                r.jar_id = jar /\ r.sequence_number > afterSeq}), limit)

\* WHERE jar_id = ? AND sequence_number BETWEEN ? AND ? ORDER BY sequence_number ASC
SelectBetween(receipts, jar, fromSeq, toSeq) ==
    Ascending({r \in receipts :
        r.jar_id = jar /\ fromSeq <= r.sequence_number /\ r.sequence_number <= toSeq})

\* limitStr ? Math.min(parseInt(limitStr), 1000) : 500
LimitOf(q) == IF q.limit.given THEN Min(q.limit.val, LimitCap) ELSE DefaultLimit

\* The branch the query parameters select.
QueryMode(q) ==
    IF q.after.given THEN "after"
    ELSE IF q.from.given /\ q.to.given THEN "range"
    ELSE "none"

\* The 400 answers of the parameter parsing: isNaN(afterSeq), isNaN(fromSeq) ||
\* isNaN(toSeq), fromSeq > toSeq, neither mode.
QueryRejected(q) ==
    CASE QueryMode(q) = "after" -> ~q.after.num
      [] QueryMode(q) = "range" ->
            \/ ~q.from.num \/ ~q.to.num
            \/ q.from.val > q.to.val
      [] OTHER -> TRUE

\* btoa(String.fromCharCode(...bytes))
Base64(bytes) == [base64 |-> bytes]

\* The JSON object a stored row is returned as.
ReceiptJson(r) ==
    [jar_id |-> r.jar_id, sequence_number |-> r.sequence_number,
     receipt_cid |-> r.receipt_cid, receipt_data |-> Base64(r.receipt_data),
     signature |-> Base64(r.signature), sender_did |-> r.sender_did]

RunQuery(receipts, jar, q) ==
    LET rows == IF QueryMode(q) = "after"
                THEN SelectAfter(receipts, jar, q.after.val, LimitOf(q))
                ELSE SelectBetween(receipts, jar, q.from.val, q.to.val)
    IN  [i \in 1..Len(rows) |-> ReceiptJson(rows[i])]

Phones == {"+1", "+2", "+3"}

\* The queries submitted: both modes, with and without limit, with a
\* non-numeric parameter, an inverted range, and no parameter at all.
ReadQueries ==
    {Query(Num(0), l, Absent, Absent) : l \in {Absent, Num(-1), Num(0), Num(1)}}
    \cup {Query(Num(1), Absent, Absent, Absent),
          Query(NotANumber, Absent, Absent, Absent)}
    \cup {Query(Absent, Absent, Num(1), Num(b)) : b \in {1, 2}}
    \cup {Query(Absent, Absent, Num(2), Num(1))}
    \cup {Query(Absent, Absent, NotANumber, Num(1)), NoQuery}

\* The handler returns: the response is sent; the resolved DID stays on record
\* in the request log, the other locals are gone.
ReadRespond(status, receipts) ==
    /\ rpc' = "done"
    /\ rresponse' = [status |-> status, receipts |-> receipts]
    /\ rjar' = "j1"
    /\ rphone' = ""
    /\ rquery' = NoQuery
    /\ UNCHANGED requesterDid

jarVars == <<jar_receipts, jar_members, devices, now, pc, jarId, receiptBytes,
             signatureBytes, senderPublicKey, isMember, attempt,
             authoritativeSequence, response, startMax, overlapsSame, calls>>

\* The request arrives; phone = "" stands for a token without phone number.
ReadBegin(jar, phone, q) ==
    /\ rpc \in {"idle", "done"}
    /\ reads < MaxReads
    /\ reads' = reads + 1
    /\ rpc' = "lookup"
    /\ rjar' = jar
    /\ rphone' = phone
    /\ rquery' = q
    /\ requesterDid' = NoDid
    /\ rresponse' = NoRead
    /\ UNCHANGED <<jarVars, phone_to_did, rateVars, auxVars, saltVars, msgVars>>

\* The phone check, SELECT did FROM phone_to_did WHERE encrypted_phone = ?,
\* and the parsing of the query parameters that follows it.
LookupRequester(map, phone) ==
    {r.did : r \in {x \in map : x.encrypted_phone = encryptPhone(phone)}}

ReadLookupDid ==
    /\ rpc = "lookup"
    /\ IF rphone = "" THEN ReadRespond(400, <<>>)
       ELSE IF LookupRequester(phone_to_did, rphone) = {} THEN ReadRespond(403, <<>>)
       ELSE IF QueryRejected(rquery) THEN ReadRespond(400, <<>>)
       ELSE /\ rpc' = "member"
            /\ requesterDid' = CHOOSE d \in LookupRequester(phone_to_did, rphone) : TRUE
            /\ UNCHANGED <<rjar, rphone, rquery, rresponse>>
    /\ UNCHANGED <<jarVars, phone_to_did, rateVars, auxVars, reads, saltVars, msgVars>>

\* isActiveMember(c.env.DB, jarId, requesterDid)
ReadCheckMember ==
    /\ rpc = "member"
    /\ IF isActiveMember(jar_members, rjar, requesterDid)
       THEN /\ rpc' = "fetch"
            /\ UNCHANGED <<rjar, rphone, rquery, requesterDid, rresponse>>
       ELSE ReadRespond(403, <<>>)
    /\ UNCHANGED <<jarVars, phone_to_did, rateVars, auxVars, reads, saltVars, msgVars>>

\* The SELECT of the chosen mode and the JSON response.
ReadFetch ==
    /\ rpc = "fetch"
    /\ ReadRespond(200, RunQuery(jar_receipts, rjar, rquery))
    /\ UNCHANGED <<jarVars, phone_to_did, rateVars, auxVars, reads, saltVars, msgVars>>

\* Backfill specification: receipts are stored one after the other, the phone
\* of one DID is remapped to the other by a registration, and backfill
\* requests interleave with all of it.
StoreBeginRead(p) ==
    /\ calls < MaxReadStores
    /\ \E jar \in Jars, req \in Requests : Begin(p, jar, req)

ReadNext ==
    \/ \E jar \in Jars, phone \in Phones \cup {""}, q \in ReadQueries :
            ReadBegin(jar, phone, q)
    \/ ReadLookupDid
    \/ ReadCheckMember
    \/ ReadFetch
    \/ RegisterDeviceAs("d1", Did("b"), "k1", "+1")
    \/ \E p \in DevProcs :
        \/ StoreBeginRead(p)
        \/ ParseRequest(p)
        \/ CheckExisting(p)
        \/ VerifySender(p)
        \/ CheckMember(p)
        \/ CheckFirstReceipt(p)
        \/ TryInsertReceipt(p)
        \/ FetchSequence(p)
        \/ ProcessReceipt(p)

SpecRead == Init /\ [][ReadNext]_vars

----------------------------------------------------------------------------
(* getOrCreateAccountSalt, one action per database statement *)

MaxSaltCalls == 3

SaltPhones == {"+1", "+2", ""}

SaltRow(phone, salt, createdAt) ==
    [encrypted_phone |-> encryptPhone(phone), salt |-> salt, created_at |-> createdAt]

\* SELECT salt FROM account_salts WHERE encrypted_phone = ?
SaltsOf(salts, phone) ==
    {r.salt : r \in {x \in salts : x.encrypted_phone = encryptPhone(phone)}}

\* INSERT INTO account_salts (encrypted_phone, salt, created_at) VALUES (?, ?, ?)
\* under PRIMARY KEY (encrypted_phone): ok = FALSE stands for the constraint error.
InsertSalt_OrReplace(salts, row) ==
    [ok |-> TRUE,
     rows |-> {r \in salts : r.encrypted_phone # row.encrypted_phone} \cup {row}]

InsertSalt(salts, row) ==
    IF \E r \in salts : r.encrypted_phone = row.encrypted_phone
    THEN [ok |-> FALSE, rows |-> salts]
    ELSE [ok |-> TRUE, rows |-> salts \cup {row}]

\* generateSalt(): a draw that equals no earlier one.
generateSalt ==
    LET used == {r.salt.random : r \in account_salts}
                    \cup {ssalt[p].random : p \in Procs}
    IN  Salt(CHOOSE n \in 1..(Cardinality(used) + 1) :
                /\ n \notin used
                /\ \A k \in 1..(n - 1) : k \in used)

\* The handler returns or throws: the response is sent, the locals are gone.
SaltRespond(p, status, salt, created) ==
    /\ spc' = [spc EXCEPT ![p] = "done"]
    /\ sresponse' = [sresponse EXCEPT ![p] = SaltResponse(status, salt, created)]
    /\ sphone' = [sphone EXCEPT ![p] = ""]
    /\ ssalt' = [ssalt EXCEPT ![p] = NoSalt]
    /\ sawRow' = [sawRow EXCEPT ![p] = FALSE]

\* The request arrives; phone = "" stands for a token without phone number.
SaltBegin(p, phone) ==
    /\ spc[p] \in {"idle", "done"}
    /\ saltCalls < MaxSaltCalls
    /\ saltCalls' = saltCalls + 1
    /\ spc' = [spc EXCEPT ![p] = "select"]
    /\ sphone' = [sphone EXCEPT ![p] = phone]
    /\ sresponse' = [sresponse EXCEPT ![p] = NoSaltResponse]
    /\ sawRow' = [sawRow EXCEPT ![p] = SaltsOf(account_salts, phone) # {}]
    /\ UNCHANGED <<account_salts, ssalt>>
    /\ UNCHANGED <<jarVars, phone_to_did, rateVars, auxVars, readVars, msgVars>>

\* The phone check (Forbidden), the SELECT of the existing salt, and on a miss
\* generateSalt().
SaltSelect(p) ==
    /\ spc[p] = "select"
    /\ IF sphone[p] = "" THEN SaltRespond(p, 403, NoSalt, FALSE)
       ELSE IF SaltsOf(account_salts, sphone[p]) # {}
       THEN SaltRespond(p, 200, CHOOSE x \in SaltsOf(account_salts, sphone[p]) : TRUE,
                        FALSE)
       ELSE /\ spc' = [spc EXCEPT ![p] = "insert"]
            /\ ssalt' = [ssalt EXCEPT ![p] = generateSalt]
            /\ UNCHANGED <<sphone, sresponse, sawRow>>
    /\ UNCHANGED <<account_salts, saltCalls>>
    /\ UNCHANGED <<jarVars, phone_to_did, rateVars, auxVars, readVars, msgVars>>

\* The INSERT; its error is caught and rethrown as a server error (500).
SaltInsert(p) ==
    /\ spc[p] = "insert"
    /\ LET res == InsertSalt(account_salts, SaltRow(sphone[p], ssalt[p], now))
       IN  /\ account_salts' = res.rows
           /\ IF res.ok THEN SaltRespond(p, 200, ssalt[p], TRUE)
              ELSE SaltRespond(p, 500, NoSalt, FALSE)
    /\ UNCHANGED saltCalls
    /\ UNCHANGED <<jarVars, phone_to_did, rateVars, auxVars, readVars, msgVars>>

SaltNext ==
    \/ Tick
    \/ \E p \in Procs :
        \/ \E phone \in SaltPhones : SaltBegin(p, phone)
        \/ SaltSelect(p)
        \/ SaltInsert(p)

SpecSalt == Init /\ [][SaltNext]_vars

----------------------------------------------------------------------------
(* sendMessage, deleteMessage and cleanupExpiredMessages, one action per     *)
(* database or object-store call.  The handlers are modelled as they are     *)
(* written: a message row is inserted without an inline payload, and a       *)
(* message row is deleted while delivery rows still refer to it, so the      *)
(* tables are taken without the NOT NULL on encrypted_payload and without    *)
(* enforcement of the foreign key of message_delivery.                       *)

MaxMsgCalls == 3
MaxSweeps == 1
MaxExpiries == 1

\* 30 * 24 * 60 * 60 * 1000 milliseconds; the clock of the model counts days.
ThirtyDays == 30

\* `messages/${messageId}.bin`
R2Key(id) == [prefix |-> "messages/", messageId |-> id, suffix |-> ".bin"]

\* The base64 texts of the model: "x" and "y" are the canonical encodings of
\* two byte strings, "x-unpadded" is the encoding of the bytes of "x" without
\* its padding, which schemas.base64 and atob both accept.
Canonical(payload) == IF payload = "x-unpadded" THEN "x" ELSE payload

\* Uint8Array.from(atob(encryptedPayload), ...)
Atob(payload) == [bytesOf |-> Canonical(payload)]

\* btoa(String.fromCharCode(...new Uint8Array(payloadBytes)))
Btoa(bytes) == bytes.bytesOf

R2Object(key, body) == [key |-> key, body |-> body]

\* r2.put(key, body): the object under the key is replaced.
R2Put(bucket, key, body) ==
    {o \in bucket : o.key # key} \cup {R2Object(key, body)}

\* r2.delete(key)
R2Delete(bucket, key) == {o \in bucket : o.key # key}

MessageRow(id, sender, device, recipients, key, createdAt, expiresAt) ==
    [message_id |-> id, sender_did |-> sender, sender_device_id |-> device,
     recipient_dids |-> recipients, r2_key |-> key, created_at |-> createdAt,
     expires_at |-> expiresAt]

DeliveryRow(n, id, recipient) ==
    [id |-> n, message_id |-> id, recipient_did |-> recipient, delivered_at |-> Null]

\* SELECT owner_did FROM devices WHERE device_id = ? AND status = 'active'
ActiveDeviceOwner_AnyStatus(devs, id) ==
    {d.owner_did : d \in {x \in devs : x.device_id = id}}

ActiveDeviceOwner(devs, id) ==
    {d.owner_did : d \in {x \in devs : x.device_id = id /\ x.status = "active"}}

\* DELETE FROM encrypted_messages
\* WHERE message_id = ? AND (sender_did = ? OR expires_at < ?)
DeleteMessageRows(messages, id, sender, t) ==
    {m \in messages :
        ~(m.message_id = id /\ (m.sender_did = sender \/ m.expires_at < t))}

\* The requests submitted: one message_id, sent by either DID from its own
\* device with a body of its own, from a device of the other DID and from a
\* device that is not registered; deleted by either DID.
MessageRequests ==
    {SendRequest(Did("a"), "m1", Did("a"), "d1", <<Did("b")>>, "x"),
     SendRequest(Did("b"), "m1", Did("b"), "d2", <<Did("a"), Did("b")>>, "y"),
     SendRequest(Did("a"), "m1", Did("a"), "d2", <<Did("b")>>, "x"),
     SendRequest(Did("a"), "m1", Did("a"), "d0", <<Did("b")>>, "x")}
    \cup {DeleteRequest(c, "m1") : c \in DIDs}

msgFrame == <<jarVars, phone_to_did, rateVars, auxVars, readVars, saltVars>>

\* The handler returns or throws: the response is sent, the locals are gone.
MsgRespond(p, status) ==
    /\ mpc' = [mpc EXCEPT ![p] = "done"]
    /\ mresponse' = [mresponse EXCEPT ![p] = status]
    /\ mreq' = [mreq EXCEPT ![p] = NoMessageRequest]
    /\ mnow' = [mnow EXCEPT ![p] = 0]
    /\ mmessage' = [mmessage EXCEPT ![p] = NoMessage]
    /\ mleft' = [mleft EXCEPT ![p] = <<>>]
    /\ mrows' = [mrows EXCEPT ![p] = <<>>]
    /\ pdevices' = [pdevices EXCEPT ![p] = {}]
    /\ presponse' = [presponse EXCEPT ![p] = NoPush]
    /\ UNCHANGED minbox

MsgContinue(p, next) ==
    /\ mpc' = [mpc EXCEPT ![p] = next]
    /\ UNCHANGED <<mreq, mresponse, mrows, minbox, pdevices, presponse>>

\* The request arrives and its fields pass validation.
MsgBegin(p, req) ==
    /\ mpc[p] \in {"idle", "done"}
    /\ msgCalls < MaxMsgCalls
    /\ msgCalls' = msgCalls + 1
    /\ mpc' = [mpc EXCEPT ![p] = CASE req.op = "send" -> "device"
                                    [] req.op = "delete" -> "select"
                                    [] OTHER -> req.op]
    /\ mreq' = [mreq EXCEPT ![p] = req]
    /\ mresponse' = [mresponse EXCEPT ![p] = 0]
    /\ minbox' = [minbox EXCEPT ![p] = NoInbox]
    /\ UNCHANGED <<mnow, mmessage, mleft, mrows, pdevices, presponse, msgTables,
                   sweepVars, msgFrame>>

\* sendMessage: the device SELECT; NotFound (404) without a row, Forbidden
\* (403) when owner_did is not sender_did.
SendCheckDevice(p) ==
    /\ mpc[p] = "device"
    /\ LET owners == ActiveDeviceOwner(devices, mreq[p].sender_device_id)
       IN  IF owners = {} THEN MsgRespond(p, 404)
           ELSE IF mreq[p].sender_did \notin owners THEN MsgRespond(p, 403)
           ELSE /\ MsgContinue(p, "existing")
                /\ UNCHANGED <<mnow, mmessage, mleft>>
    /\ UNCHANGED <<msgCalls, msgTables, sweepVars, msgFrame>>

\* sendMessage: SELECT message_id ... WHERE message_id = ?; ValidationFailed
\* (400) when the row exists; then const now = Date.now().
SendCheckExisting(p) ==
    /\ mpc[p] = "existing"
    /\ IF \E m \in encrypted_messages : m.message_id = mreq[p].message_id
       THEN MsgRespond(p, 400)
       ELSE /\ MsgContinue(p, "put")
            /\ mnow' = [mnow EXCEPT ![p] = now]
            /\ UNCHANGED <<mmessage, mleft>>
    /\ UNCHANGED <<msgCalls, msgTables, sweepVars, msgFrame>>

\* sendMessage: r2.put; an error of the object store propagates (500).
SendPut(p) ==
    /\ mpc[p] = "put"
    /\ \/ /\ R2_MESSAGES' = R2Put(R2_MESSAGES, R2Key(mreq[p].message_id),
                                  Atob(mreq[p].encrypted_payload))
          /\ MsgContinue(p, "row")
          /\ UNCHANGED <<mnow, mmessage, mleft>>
       \/ /\ UNCHANGED R2_MESSAGES
          /\ MsgRespond(p, 500)
    /\ UNCHANGED <<msgCalls, encrypted_messages, message_delivery, deliveryId,
                   sweepVars, msgFrame>>

\* sendMessage: INSERT INTO encrypted_messages; the PRIMARY KEY error
\* propagates (500).
SendInsertRow(p) ==
    /\ mpc[p] = "row"
    /\ IF \E m \in encrypted_messages : m.message_id = mreq[p].message_id
       THEN /\ MsgRespond(p, 500)
            /\ UNCHANGED encrypted_messages
       ELSE /\ encrypted_messages' = encrypted_messages \cup
                    {MessageRow(mreq[p].message_id, mreq[p].sender_did,
                                mreq[p].sender_device_id, mreq[p].recipient_dids,
                                Some(R2Key(mreq[p].message_id)), mnow[p],
                                mnow[p] + ThirtyDays)}
            /\ MsgContinue(p, "deliver")
            /\ mleft' = [mleft EXCEPT ![p] = mreq[p].recipient_dids]
            /\ UNCHANGED <<mnow, mmessage>>
    /\ UNCHANGED <<msgCalls, message_delivery, deliveryId, R2_MESSAGES,
                   sweepVars, msgFrame>>

\* sendMessage: one INSERT INTO message_delivery of Promise.all; after the
\* last one sendPushNotifications is handed to waitUntil and the 201 response
\* is returned.
SendInsertDelivery(p) ==
    /\ mpc[p] = "deliver"
    /\ deliveryId' = deliveryId + 1
    /\ message_delivery' = message_delivery \cup
            {DeliveryRow(deliveryId + 1, mreq[p].message_id, Head(mleft[p]))}
    /\ IF Len(mleft[p]) = 1
       THEN /\ mpc' = [mpc EXCEPT ![p] = "push"]
            /\ mresponse' = [mresponse EXCEPT ![p] = 201]
            /\ mnow' = [mnow EXCEPT ![p] = 0]
            /\ mleft' = [mleft EXCEPT ![p] = <<>>]
            /\ UNCHANGED <<mreq, mmessage, mrows, minbox, pdevices, presponse>>
       ELSE /\ MsgContinue(p, "deliver")
            /\ mleft' = [mleft EXCEPT ![p] = Tail(mleft[p])]
            /\ UNCHANGED <<mnow, mmessage>>
    /\ UNCHANGED <<msgCalls, encrypted_messages, R2_MESSAGES, sweepVars, msgFrame>>

\* What a step of sendPushNotifications leaves alone besides the devices.
pushFrame == <<jar_receipts, jar_members, now, pc, jarId, receiptBytes,
               signatureBytes, senderPublicKey, isMember, attempt,
               authoritativeSequence, response, startMax, overlapsSame, calls,
               phone_to_did, rateVars, auxVars, readVars, saltVars, msgTables, sweepVars,
               msgCalls,
               mnow, mmessage, mleft, mrows, minbox>>

\* The statuses APNs answers with in the model; 0 stands for a fetch that threw.
ApnsStatuses == {200, 410, 429, 503, 400, 0}

\* SELECT device_id, apns_token FROM devices WHERE owner_did IN (...)
\*   AND status = 'active' AND apns_token IS NOT NULL
PushTargets(devs, recipients) ==
    {d.device_id : d \in {x \in devs :
        /\ \E i \in 1..Len(recipients) : recipients[i] = x.owner_did
        /\ x.status = "active"
        /\ x.apns_token # Null}}

\* sendPushNotifications returns, or throws into the catch of waitUntil.
PushEnd(p) ==
    /\ mpc' = [mpc EXCEPT ![p] = "done"]
    /\ mreq' = [mreq EXCEPT ![p] = NoMessageRequest]
    /\ pdevices' = [pdevices EXCEPT ![p] = {}]
    /\ presponse' = [presponse EXCEPT ![p] = NoPush]
    /\ UNCHANGED mresponse

\* sendPushNotifications ends before any push: the device SELECT throws or
\* finds no device, or generateAPNsJWT throws because the APNs credentials are
\* not configured.
PushNothing_Propagates(p) ==
    /\ mpc[p] = "push"
    /\ mpc' = [mpc EXCEPT ![p] = "done"]
    /\ mreq' = [mreq EXCEPT ![p] = NoMessageRequest]
    /\ mresponse' = [mresponse EXCEPT ![p] = 500]
    /\ UNCHANGED <<pdevices, presponse, devices, pushFrame>>

PushNothing(p) ==
    /\ mpc[p] = "push"
    /\ PushEnd(p)
    /\ UNCHANGED <<devices, pushFrame>>

\* sendPushNotifications: the device SELECT finds devices and generateAPNsJWT
\* returns a token.
PushQuery(p) ==
    /\ mpc[p] = "push"
    /\ PushTargets(devices, mreq[p].recipient_dids) # {}
    /\ mpc' = [mpc EXCEPT ![p] = "pushing"]
    /\ pdevices' = [pdevices EXCEPT ![p] =
                        PushTargets(devices, mreq[p].recipient_dids)]
    /\ UNCHANGED <<mreq, mresponse, presponse, devices, pushFrame>>

\* sendPushNotifications: the fetch to APNs for one of the devices.
PushFetch(p) ==
    /\ mpc[p] = "pushing"
    /\ presponse[p] = NoPush
    /\ \E id \in pdevices[p], status \in ApnsStatuses :
        /\ presponse' = [presponse EXCEPT ![p] = PushResponse(id, status)]
        /\ pdevices' = [pdevices EXCEPT ![p] = pdevices[p] \ {id}]
    /\ UNCHANGED <<mpc, mreq, mresponse, devices, pushFrame>>

\* The devices table after the APNs response was handled: the UPDATE on 410,
\* a log line on anything else.
AfterPush_AnyError(devs, resp) ==
    IF resp.status # 200 THEN DeactivateDevice(devs, resp.device_id) ELSE devs

AfterPush(devs, resp) ==
    IF resp.status = 410 THEN DeactivateDevice(devs, resp.device_id) ELSE devs

\* sendPushNotifications: the APNs response of one device is handled; after
\* the last device Promise.allSettled resolves.
PushHandle(p) ==
    /\ mpc[p] = "pushing"
    /\ presponse[p] # NoPush
    /\ devices' = AfterPush(devices, presponse[p])
    /\ IF pdevices[p] = {} THEN PushEnd(p)
       ELSE /\ presponse' = [presponse EXCEPT ![p] = NoPush]
            /\ UNCHANGED <<mpc, mreq, mresponse, pdevices>>
    /\ UNCHANGED pushFrame

\* deleteMessage: SELECT sender_did, r2_key ... WHERE message_id = ?; NotFound
\* (404) without a row.
DeleteSelect(p) ==
    /\ mpc[p] = "select"
    /\ LET rows == {m \in encrypted_messages : m.message_id = mreq[p].message_id}
       IN  IF rows = {} THEN MsgRespond(p, 404)
           ELSE /\ MsgContinue(p, "delete")
                /\ mmessage' = [mmessage EXCEPT ![p] =
                        LET m == CHOOSE x \in rows : TRUE
                        IN  SelectedMessage(m.sender_did, m.r2_key)]
                /\ UNCHANGED <<mnow, mleft>>
    /\ UNCHANGED <<msgCalls, msgTables, sweepVars, msgFrame>>

\* deleteMessage: const now = Date.now() and the DELETE, bound to the
\* sender_did just read; Forbidden (403) when it changed no row.
DeleteRow(p) ==
    /\ mpc[p] = "delete"
    /\ LET rows == DeleteMessageRows(encrypted_messages, mreq[p].message_id,
                                     mmessage[p].sender_did, now)
       IN  /\ encrypted_messages' = rows
           /\ IF rows = encrypted_messages THEN MsgRespond(p, 403)
              ELSE /\ MsgContinue(p, IF mmessage[p].r2_key # Null
                                     THEN "blob" ELSE "deliveries")
                   /\ mnow' = [mnow EXCEPT ![p] = now]
                   /\ UNCHANGED <<mmessage, mleft>>
    /\ UNCHANGED <<msgCalls, message_delivery, deliveryId, R2_MESSAGES,
                   sweepVars, msgFrame>>

\* deleteMessage: r2.delete(message.r2_key); an error of the object store
\* propagates (500).
DeleteBlob(p) ==
    /\ mpc[p] = "blob"
    /\ \/ /\ R2_MESSAGES' = R2Delete(R2_MESSAGES, mmessage[p].r2_key[1])
          /\ MsgContinue(p, "deliveries")
          /\ UNCHANGED <<mnow, mmessage, mleft>>
       \/ /\ UNCHANGED R2_MESSAGES
          /\ MsgRespond(p, 500)
    /\ UNCHANGED <<msgCalls, encrypted_messages, message_delivery, deliveryId,
                   sweepVars, msgFrame>>

\* deleteMessage: DELETE FROM message_delivery WHERE message_id = ?, then 200.
DeleteDeliveries(p) ==
    /\ mpc[p] = "deliveries"
    /\ message_delivery' = {d \in message_delivery :
                                d.message_id # mreq[p].message_id}
    /\ MsgRespond(p, 200)
    /\ UNCHANGED <<msgCalls, encrypted_messages, deliveryId, R2_MESSAGES,
                   sweepVars, msgFrame>>

\* cleanupExpiredMessages: const now = Date.now() and
\* SELECT message_id, r2_key FROM encrypted_messages WHERE expires_at < ?
SweepBegin ==
    /\ cpc = "idle"
    /\ cnow' = now
    /\ cexpired' = {m.r2_key[1] : m \in {x \in encrypted_messages :
                        x.expires_at < now /\ x.r2_key # Null}}
    /\ cpc' = "blobs"
    /\ UNCHANGED <<msgTables, msgLocals, msgFrame>>

\* One of the sweeps counted by the bound.
SweepSelect ==
    /\ sweeps < MaxSweeps
    /\ sweeps' = sweeps + 1
    /\ SweepBegin

\* The scheduled trigger fires: a sweep begins, as it does every day.
CronSweep ==
    /\ SweepBegin
    /\ UNCHANGED sweeps

\* cleanupExpiredMessages: one r2.delete of the expired messages; its error
\* is logged and the sweep goes on.
SweepDeleteBlob ==
    /\ cpc = "blobs"
    /\ \E key \in cexpired :
        /\ cexpired' = cexpired \ {key}
        /\ \/ R2_MESSAGES' = R2Delete(R2_MESSAGES, key)
           \/ UNCHANGED R2_MESSAGES
    /\ UNCHANGED <<cpc, cnow, sweeps, encrypted_messages, message_delivery,
                   deliveryId, msgLocals, msgFrame>>

\* cleanupExpiredMessages: DELETE FROM encrypted_messages WHERE expires_at < ?
SweepDeleteRows ==
    /\ cpc = "blobs"
    /\ cexpired = {}
    /\ encrypted_messages' = {m \in encrypted_messages : ~(m.expires_at < cnow)}
    /\ cpc' = "orphans"
    /\ UNCHANGED <<cnow, cexpired, sweeps, message_delivery, deliveryId,
                   R2_MESSAGES, msgLocals, msgFrame>>

\* cleanupExpiredMessages: DELETE FROM message_delivery WHERE message_id NOT IN
\* (SELECT message_id FROM encrypted_messages)
SweepDeleteOrphans ==
    /\ cpc = "orphans"
    /\ message_delivery' = {d \in message_delivery :
            \E m \in encrypted_messages : m.message_id = d.message_id}
    /\ cpc' = "idle"
    /\ cnow' = 0
    /\ UNCHANGED <<cexpired, sweeps, encrypted_messages, deliveryId, R2_MESSAGES,
                   msgLocals, msgFrame>>

\* Thirty days and a day pass: what was stored before has expired.
PassThirtyDays ==
    /\ now < MaxExpiries * ThirtyDays
    /\ now' = now + ThirtyDays + 1
    /\ UNCHANGED <<jar_receipts, jar_members, devices, pc, jarId, receiptBytes,
                   signatureBytes, senderPublicKey, isMember, attempt,
                   authoritativeSequence, response, startMax, overlapsSame,
                   calls>>
    /\ UNCHANGED <<phone_to_did, rateVars, auxVars, extVars>>

\* getInbox: default and cap of the limit parameter.
InboxDefaultLimit == 50
InboxLimitCap == 100

\* const limitStr = c.req.query('limit') || '50';
\* const limit = Math.min(parseInt(limitStr, 10) || 50, 100): a missing or
\* empty parameter, one that is not a number and 0 all give 50.
InboxLimit(limit) ==
    Min(IF limit.given /\ limit.num /\ limit.val # 0
        THEN limit.val
        ELSE InboxDefaultLimit,
        InboxLimitCap)

\* const since = sinceStr ? parseInt(sinceStr, 10) : 0, for the numbers the
\* model submits.
InboxSince(since) == IF since.given /\ since.num THEN since.val ELSE 0

\* A row of the join of encrypted_messages and message_delivery; delivery, the
\* id of the delivery row, tells apart two rows of the join on one message.
InboxRow(m, d) ==
    [message_id |-> m.message_id, sender_did |-> m.sender_did,
     r2_key |-> m.r2_key, created_at |-> m.created_at,
     expires_at |-> m.expires_at, delivered_at |-> d.delivered_at,
     delivery |-> d.id]

\* FROM encrypted_messages m INNER JOIN message_delivery d
\*   ON m.message_id = d.message_id
\* WHERE d.recipient_did = ? AND m.created_at > ? AND m.expires_at > ?
InboxRows(messages, deliveries, did, since, t) ==
    {InboxRow(j[1], j[2]) :
        j \in {k \in messages \X deliveries :
                 /\ k[1].message_id = k[2].message_id
                 /\ k[2].recipient_did = did
                 /\ k[1].created_at > since
                 /\ k[1].expires_at > t}}

\* ORDER BY m.created_at DESC: every order of the rows that is descending in
\* created_at; rows of one created_at come in any order.
DescendingOrders(rows) ==
    {f \in [1..Cardinality(rows) -> rows] :
        \A i, j \in 1..Cardinality(rows) :
            i < j => f[i] # f[j] /\ f[i].created_at >= f[j].created_at}

\* The element of `messages` built from a row and the payload read for it.
InboxMessage(row, payload) ==
    [message_id |-> row.message_id, sender_did |-> row.sender_did,
     encrypted_payload |-> payload, created_at |-> row.created_at,
     expires_at |-> row.expires_at, delivered_at |-> row.delivered_at]

\* getInbox returns c.json({messages, count, has_more: messages.length === limit}).
InboxRespond(p, messages) ==
    /\ mpc' = [mpc EXCEPT ![p] = "done"]
    /\ mresponse' = [mresponse EXCEPT ![p] = 200]
    /\ minbox' = [minbox EXCEPT ![p] =
            InboxBody(messages, Len(messages) = InboxLimit(mreq[p].limit))]
    /\ mrows' = [mrows EXCEPT ![p] = <<>>]
    /\ mnow' = [mnow EXCEPT ![p] = 0]
    /\ mreq' = [mreq EXCEPT ![p] = NoMessageRequest]

\* getInbox: const now = Date.now() and the SELECT with LIMIT ?; with no row
\* Promise.all has nothing to wait for and the response follows.
InboxSelect(p) ==
    /\ mpc[p] = "inbox"
    /\ \E ordered \in DescendingOrders(
                InboxRows(encrypted_messages, message_delivery, mreq[p].did,
                          InboxSince(mreq[p].since), now)) :
          LET rows == SqlLimit(ordered, InboxLimit(mreq[p].limit))
          IN  IF rows = <<>>
              THEN InboxRespond(p, <<>>)
              ELSE /\ mpc' = [mpc EXCEPT ![p] = "fetch"]
                   /\ mrows' = [mrows EXCEPT ![p] = rows]
                   /\ mnow' = [mnow EXCEPT ![p] = now]
                   /\ UNCHANGED <<mreq, mresponse, minbox>>
    /\ UNCHANGED <<mmessage, mleft, pdevices, presponse, msgCalls, msgTables,
                   sweepVars, msgFrame>>

\* getInbox: r2.get of the next row's r2_key; a missing object throws (500),
\* and so does a row with neither r2_key nor an inline payload (sendMessage
\* writes no inline payload); the bytes found are encoded with btoa.
\* The response follows the last row.
InboxFetch(p) ==
    /\ mpc[p] = "fetch"
    /\ LET row == Head(mrows[p])
           found == IF row.r2_key = Null THEN {}
                    ELSE {o \in R2_MESSAGES : o.key = row.r2_key[1]}
       IN  IF found = {}
           THEN /\ mpc' = [mpc EXCEPT ![p] = "done"]
                /\ mresponse' = [mresponse EXCEPT ![p] = 500]
                /\ minbox' = [minbox EXCEPT ![p] = NoInbox]
                /\ mrows' = [mrows EXCEPT ![p] = <<>>]
                /\ mnow' = [mnow EXCEPT ![p] = 0]
                /\ mreq' = [mreq EXCEPT ![p] = NoMessageRequest]
           ELSE LET r2Object == CHOOSE o \in found : TRUE
                    messages == Append(minbox[p].messages,
                                       InboxMessage(row, Btoa(r2Object.body)))
                IN  IF Len(mrows[p]) = 1
                    THEN InboxRespond(p, messages)
                    ELSE /\ minbox' = [minbox EXCEPT ![p] =
                                            InboxBody(messages, FALSE)]
                         /\ mrows' = [mrows EXCEPT ![p] = Tail(mrows[p])]
                         /\ UNCHANGED <<mpc, mreq, mresponse, mnow>>
    /\ UNCHANGED <<mmessage, mleft, pdevices, presponse, msgCalls, msgTables,
                   sweepVars, msgFrame>>

PendingDeliveries_Unguarded(deliveries, id, did) ==
    {d \in deliveries : d.message_id = id /\ d.recipient_did = did}

\* WHERE message_id = ? AND recipient_did = ? AND delivered_at IS NULL
PendingDeliveries(deliveries, id, did) ==
    {d \in deliveries :
        d.message_id = id /\ d.recipient_did = did /\ d.delivered_at = Null}

\* markDelivered: const now = Date.now() and UPDATE message_delivery SET
\* delivered_at = ?; NotFound (404) when result.meta.changes is 0.
MarkDelivered(p) ==
    /\ mpc[p] = "mark"
    /\ LET hit == PendingDeliveries(message_delivery, mreq[p].message_id,
                                    mreq[p].did)
       IN  /\ message_delivery' = (message_delivery \ hit) \cup
                    {[d EXCEPT !.delivered_at = Some(now)] : d \in hit}
           /\ IF hit = {} THEN MsgRespond(p, 404) ELSE MsgRespond(p, 200)
    /\ UNCHANGED <<msgCalls, encrypted_messages, deliveryId, R2_MESSAGES,
                   sweepVars, msgFrame>>

\* The two handlers in a deployment without APNs credentials and the
\* deactivation of devices, without the sweep and without the passing of time.
MsgHandlersNext ==
    \/ \E id \in DeviceIds : MarkDeviceInactive(id)
    \/ \E p \in Procs :
        \/ \E req \in MessageRequests : MsgBegin(p, req)
        \/ SendCheckDevice(p)
        \/ SendCheckExisting(p)
        \/ SendPut(p)
        \/ SendInsertRow(p)
        \/ SendInsertDelivery(p)
        \/ PushNothing(p)
        \/ DeleteSelect(p)
        \/ DeleteRow(p)
        \/ DeleteBlob(p)
        \/ DeleteDeliveries(p)

SpecMsgHandlers == Init /\ [][MsgHandlersNext]_vars

\* sendMessage with its push fan-out, for the devices and tokens of Init.
PushNext ==
    \E p \in Procs :
        \/ \E req \in {r \in MessageRequests : r.op = "send"} : MsgBegin(p, req)
        \/ SendCheckDevice(p)
        \/ SendCheckExisting(p)
        \/ SendPut(p)
        \/ SendInsertRow(p)
        \/ SendInsertDelivery(p)
        \/ PushNothing(p)
        \/ PushQuery(p)
        \/ PushFetch(p)
        \/ PushHandle(p)

SpecPush == Init /\ [][PushNext]_vars

\* The requests of the inbox specification: m1 sent by either DID with a body
\* of its own, m2 sent with a body in unpadded base64, and the inbox of b read
\* with and without since and limit.
InboxRequests ==
    {SendRequest(Did("a"), "m1", Did("a"), "d1", <<Did("b")>>, "x"),
     SendRequest(Did("b"), "m1", Did("b"), "d2", <<Did("a"), Did("b")>>, "y"),
     SendRequest(Did("a"), "m2", Did("a"), "d1", <<Did("b")>>, "x-unpadded"),
     InboxRequest(Did("b"), Did("b"), Absent, Absent),
     InboxRequest(Did("b"), Did("b"), Absent, Num(1)),
     InboxRequest(Did("b"), Did("b"), Absent, Num(0)),
     InboxRequest(Did("b"), Did("b"), Absent, Num(-1)),
     InboxRequest(Did("b"), Did("b"), Num(1), Absent)}

\* sendMessage and getInbox while time passes.
InboxNext ==
    \/ Tick
    \/ PassThirtyDays
    \/ \E p \in Procs :
        \/ \E req \in InboxRequests : MsgBegin(p, req)
        \/ SendCheckDevice(p)
        \/ SendCheckExisting(p)
        \/ SendPut(p)
        \/ SendInsertRow(p)
        \/ SendInsertDelivery(p)
        \/ PushNothing(p)
        \/ InboxSelect(p)
        \/ InboxFetch(p)

SpecInbox == Init /\ [][InboxNext]_vars

\* The requests of the delivery specification: m1 sent by either DID, deleted
\* by its sender, and marked delivered for either recipient.
MarkRequests ==
    {SendRequest(Did("a"), "m1", Did("a"), "d1", <<Did("b")>>, "x"),
     SendRequest(Did("b"), "m1", Did("b"), "d2", <<Did("a"), Did("b")>>, "y"),
     DeleteRequest(Did("a"), "m1"),
     MarkRequest(Did("b"), "m1", Did("b")),
     MarkRequest(Did("a"), "m1", Did("a"))}

\* sendMessage, deleteMessage and markDelivered while the clock advances.
MarkNext ==
    \/ Tick
    \/ \E p \in Procs :
        \/ \E req \in MarkRequests : MsgBegin(p, req)
        \/ SendCheckDevice(p)
        \/ SendCheckExisting(p)
        \/ SendPut(p)
        \/ SendInsertRow(p)
        \/ SendInsertDelivery(p)
        \/ PushNothing(p)
        \/ DeleteSelect(p)
        \/ DeleteRow(p)
        \/ DeleteBlob(p)
        \/ DeleteDeliveries(p)
        \/ MarkDelivered(p)

SpecMark == Init /\ [][MarkNext]_vars

\* sendMessage: the INSERT INTO encrypted_messages throws for a reason other
\* than the key (the database is unavailable) or the request is cancelled
\* before it: the blob is written, no row is.
SendAbort(p) ==
    /\ mpc[p] = "row"
    /\ MsgRespond(p, 500)
    /\ UNCHANGED <<msgCalls, msgTables, sweepVars, msgFrame>>

\* The send of m1 by a, which may fail before its row is written, the passing
\* of time and the daily sweep, which goes on for ever.
CleanupNext ==
    \/ PassThirtyDays
    \/ CronSweep
    \/ SweepDeleteBlob
    \/ SweepDeleteRows
    \/ SweepDeleteOrphans
    \/ \E p \in Procs :
        \/ MsgBegin(p, SendRequest(Did("a"), "m1", Did("a"), "d1", <<Did("b")>>, "x"))
        \/ SendCheckDevice(p)
        \/ SendCheckExisting(p)
        \/ SendPut(p)
        \/ SendInsertRow(p)
        \/ SendAbort(p)
        \/ SendInsertDelivery(p)
        \/ PushNothing(p)

\* The trigger keeps firing and a sweep that has begun runs to its end; time
\* passes; a request that has begun is served to its end.
SpecCleanup ==
    /\ Init
    /\ [][CleanupNext]_vars
    /\ WF_vars(PassThirtyDays)
    /\ WF_vars(CronSweep)
    /\ WF_vars(SweepDeleteBlob)
    /\ WF_vars(SweepDeleteRows)
    /\ WF_vars(SweepDeleteOrphans)
    /\ \A p \in Procs :
        WF_vars(SendCheckDevice(p) \/ SendCheckExisting(p) \/ SendPut(p)
                \/ SendInsertRow(p) \/ SendInsertDelivery(p) \/ PushNothing(p))

MsgNext ==
    \/ PassThirtyDays
    \/ MarkDeviceInactive("d2")
    \/ SweepSelect
    \/ SweepDeleteBlob
    \/ SweepDeleteRows
    \/ SweepDeleteOrphans
    \/ \E p \in Procs :
        \/ \E req \in MessageRequests : MsgBegin(p, req)
        \/ SendCheckDevice(p)
        \/ SendCheckExisting(p)
        \/ SendPut(p)
        \/ SendInsertRow(p)
        \/ SendInsertDelivery(p)
        \/ PushNothing(p)
        \/ DeleteSelect(p)
        \/ DeleteRow(p)
        \/ DeleteBlob(p)
        \/ DeleteDeliveries(p)

SpecMsg == Init /\ [][MsgNext]_vars

----------------------------------------------------------------------------
(* Properties of the jar receipt log *)

RowsOf(receipts, jar) == {r \in receipts : r.jar_id = jar}
SeqsOf(receipts, jar) == {r.sequence_number : r \in RowsOf(receipts, jar)}
Completes(p) == InFlight(p) /\ pc'[p] = "done"
Steps(p) == pc'[p] # pc[p]
TablesUnchanged == jar_receipts' = jar_receipts /\ jar_members' = jar_members

\* C1: in every reachable state the sequence_numbers stored for a jar are
\* exactly 1..n, n the number of rows stored for the jar: no hole, no duplicate.
C1_DenseSequence ==
    \A jar \in Jars :
        SeqsOf(jar_receipts, jar) = 1..Cardinality(RowsOf(jar_receipts, jar))

\* Two requests have both executed their INSERT and neither has returned.
C1_Witness ==
    /\ \A p \in Procs : pc[p] = "fetchSeq"
    /\ Cardinality(jar_receipts) >= 3

\* C2: a request whose sender passed the membership check as an active member
\* and whose receipt no overlapping request carries completes with 200; the
\* sequence_number it returns lies above the jar's maximum at its arrival,
\* every number between that maximum and it is stored, and the row stored
\* under it is this request's receipt and no other.
C2_ConcurrentStores ==
    [][\A p \in Procs :
        (Completes(p) /\ isMember[p] /\ ~overlapsSame[p]) =>
            /\ response'[p].status = 200
            /\ response'[p].sequence_number > startMax[p]
            /\ \A n \in (startMax[p] + 1)..response'[p].sequence_number :
                    \E r \in RowsOf(jar_receipts', jarId[p]) : r.sequence_number = n
            /\ \A r \in RowsOf(jar_receipts', jarId[p]) :
                    r.sequence_number = response'[p].sequence_number
                        => r.receipt_data = receiptBytes[p]]_vars

\* Two active members' requests with different receipts arrived at the same
\* jar maximum and both have inserted.
C2_Witness ==
    /\ \A p \in Procs : pc[p] = "process" /\ isMember[p]
    /\ receiptBytes["p1"] # receiptBytes["p2"]
    /\ startMax["p1"] = startMax["p2"]
    /\ {authoritativeSequence[p] : p \in Procs}
            = {startMax["p1"] + 1, startMax["p1"] + 2}

\* C3: a request whose receipt_data is already stored when the idempotency
\* lookup runs answers 200 with the stored row's sequence_number and changes
\* neither jar_receipts nor jar_members; stored rows never change or vanish.
C3_Idempotent ==
    [][/\ \A p \in Procs : \A r \in jar_receipts :
            (pc[p] = "checkExisting" /\ Steps(p)
                /\ r.receipt_data = receiptBytes[p]) =>
                /\ response'[p] = Response(200, r.sequence_number)
                /\ TablesUnchanged
       /\ \A p \in Procs : (pc[p] \in {"idle", "done", "parse"} /\ Steps(p))
                                => TablesUnchanged
       /\ jar_receipts \subseteq jar_receipts']_vars

\* One row is stored and two requests have been answered 200 with its number.
C3_Witness ==
    /\ Cardinality(jar_receipts) = 1
    /\ \A p \in Procs : pc[p] = "done" /\ response[p] = Response(200, 1)

\* C4: when a request overlapped another one carrying the same receipt_data
\* and the receipt is stored, the request answers 200 with the sequence_number
\* of the one row that holds the receipt.
C4_OverlappingRetry ==
    [][\A p \in Procs :
        (Completes(p) /\ overlapsSame[p]
            /\ \E r \in jar_receipts' : r.receipt_data = receiptBytes[p]) =>
            /\ response'[p].status = 200
            /\ \A r \in jar_receipts' : r.receipt_data = receiptBytes[p]
                    => r.sequence_number = response'[p].sequence_number
            /\ Cardinality({r \in jar_receipts' :
                                r.receipt_data = receiptBytes[p]}) = 1]_vars

\* C5: a row is inserted only when, in the state it is inserted in, its sender
\* is an active member of the jar or the jar has no receipt.
C5_AuthorizedAtInsert ==
    [][\A r \in jar_receipts' \ jar_receipts :
        \/ \E m \in jar_members : /\ m.jar_id = r.jar_id
                                  /\ m.member_did = r.sender_did
                                  /\ m.status = "active"
        \/ RowsOf(jar_receipts, r.jar_id) = {}]_vars

\* The active devices of a DID that no other active device of it was
\* registered after.
LatestActiveDevices(devs, did) ==
    {d \in devs :
        /\ d.owner_did = did /\ d.status = "active"
        /\ \A e \in devs : (e.owner_did = did /\ e.status = "active")
                                => e.registered_at <= d.registered_at}

PastVerification == {"checkMember", "checkFirst", "insert", "fetchSeq", "process"}

\* C6: a request gets past signature verification only with a signature that
\* is the Ed25519 signature of its exact receipt_data under the key of a most
\* recently registered active device of the receipt's sender_did, as the
\* devices table stands when the key is looked up; and a row is inserted only
\* by such a request, with that receipt_data, signature and sender_did.
C6_SignatureChecked ==
    /\ [](\A p \in Procs : pc[p] \in PastVerification =>
            signatureBytes[p] = Sign(senderPublicKey[p], receiptBytes[p]))
    /\ [][/\ \A p \in Procs :
                (pc[p] \notin PastVerification /\ pc'[p] \in PastVerification) =>
                    \E d \in LatestActiveDevices(devices, receiptBytes[p].sender_did) :
                        /\ senderPublicKey'[p] = d.pubkey_ed25519
                        /\ receiptBytes'[p] = receiptBytes[p]
                        /\ signatureBytes'[p] = signatureBytes[p]
          /\ \A p \in Procs :
                (pc[p] \in PastVerification /\ pc'[p] \in PastVerification) =>
                    /\ senderPublicKey'[p] = senderPublicKey[p]
                    /\ receiptBytes'[p] = receiptBytes[p]
                    /\ signatureBytes'[p] = signatureBytes[p]
          /\ \A r \in jar_receipts' \ jar_receipts :
                \E p \in Procs :
                    /\ pc[p] \in PastVerification
                    /\ r.receipt_data = receiptBytes[p]
                    /\ r.signature = signatureBytes[p]
                    /\ r.sender_did = receiptBytes[p].sender_did]_vars

\* A receipt is stored whose signature is by the key of the later of two
\* active devices of its sender that hold different keys.
C6_Witness ==
    \E r \in jar_receipts : \E d1 \in devices, d2 \in devices :
        /\ d1.owner_did = r.sender_did /\ d2.owner_did = r.sender_did
        /\ d1.status = "active" /\ d2.status = "active"
        /\ d1.registered_at < d2.registered_at
        /\ d1.pubkey_ed25519 # d2.pubkey_ed25519
        /\ r.signature = Sign(d2.pubkey_ed25519, r.receipt_data)

WellFormedSender(bytes) ==
    bytes.cbor /\ bytes.sender_did # NoDid /\ bytes.sender_did.scheme = "did:phone:"

SamePk(m, n) == m.jar_id = n.jar_id /\ m.member_did = n.member_did

\* C8: a jar_members row gets role owner only from a jar.created receipt whose
\* sequence_number is 1, in a jar that has no owner row yet; and a row that has
\* role owner keeps it.
C8_OwnerOnlyAtGenesis ==
    [][/\ \A m \in jar_members' :
            (m.role = "owner"
                /\ ~\E n \in jar_members : SamePk(m, n) /\ n.role = "owner") =>
                /\ \E p \in Procs :
                        /\ pc[p] = "process" /\ Steps(p)
                        /\ jarId[p] = m.jar_id
                        /\ receiptBytes[p].receipt_type = "jar.created"
                        /\ authoritativeSequence[p] = 1
                /\ ~\E n \in jar_members : n.jar_id = m.jar_id /\ n.role = "owner"
       /\ \A n \in jar_members :
            n.role = "owner" =>
                \E m \in jar_members' : SamePk(m, n) /\ m.role = "owner"]_vars

RECURSIVE Replay(_, _, _)
Replay(receipts, jar, n) ==
    IF n = 0 THEN {}
    ELSE LET prev == Replay(receipts, jar, n - 1)
             rows == {r \in RowsOf(receipts, jar) : r.sequence_number = n}
         IN  IF rows = {} THEN prev
             ELSE LET r == CHOOSE x \in rows : TRUE
                  IN  processJarReceipt(prev, jar, r.receipt_cid, r.receipt_data,
                                        r.sequence_number)

\* C10: whenever no request is in progress, the jar_members rows of each jar
\* are the replay of the jar's stored receipts.
C10_ReplayEqualsLive ==
    (\A p \in Procs : Idle(p)) =>
        \A jar \in Jars :
            {m \in jar_members : m.jar_id = jar}
                = Replay(jar_receipts, jar, MaxSeq(jar_receipts, jar))
----------------------------------------------------------------------------
(* Properties of materialization failures *)

KnownTypes == {"jar.created", "jar.member_added", "jar.invite_accepted",
               "jar.member_removed"}

\* A receipt processJarReceipt does not materialize: its receipt_type is none
\* of the four handled ones, or it is a jar.member_added whose payload is not
\* a byte string, so that decode(payloadBytes) throws.
Unmaterialized(bytes) ==
    \/ bytes.receipt_type \notin KnownTypes
    \/ bytes.receipt_type = "jar.member_added" /\ bytes.payload.enc # "bytes"

\* C11: when the receipt a request has inserted is of an unknown type or its
\* materialization fails, the request still answers 200 with the
\* sequence_number assigned to it, jar_members is left as it was, and the row
\* stays stored under that number; no step removes a stored row.
C11_StoredDespiteFailure ==
    [][/\ \A p \in Procs :
            (pc[p] = "process" /\ Steps(p) /\ Unmaterialized(receiptBytes[p])) =>
                /\ response'[p] = Response(200, authoritativeSequence[p])
                /\ authoritativeSequence[p] >= 1
                /\ jar_members' = jar_members
                /\ \E r \in jar_receipts' :
                        /\ r.jar_id = jarId[p]
                        /\ r.sequence_number = authoritativeSequence[p]
                        /\ r.receipt_data = receiptBytes[p]
       /\ jar_receipts \subseteq jar_receipts']_vars

\* A jar.member_added with an undecodable payload is stored as the first
\* receipt of the jar and answered 200 with sequence_number 1; no member row
\* came of it.
C11_Witness ==
    /\ \E r \in jar_receipts :
            r.receipt_data = AddedMapB /\ r.sequence_number = 1
    /\ jar_members = {}
    /\ \E p \in Procs : pc[p] = "done" /\ response[p] = Response(200, 1)
----------------------------------------------------------------------------
(* Properties of getJarReceipts *)

ReadSteps == rpc' # rpc

ActiveIn(members, jar, did) ==
    \E m \in members : m.jar_id = jar /\ m.member_did = did /\ m.status = "active"

\* C12: a backfill request with a query of either mode gets receipts only
\* when the DID that phone_to_did held for the caller's phone at the lookup is
\* an active member of the jar when the membership check runs; a caller whose
\* phone is unmapped, and a caller whose DID has no row or a row that is not
\* active at the check, is answered 403 without receipts; every receipt
\* returned is of the requested jar.
C12_ReadersAreMembers ==
    [][/\ (rpc = "lookup" /\ ReadSteps /\ rphone # ""
            /\ ~\E r \in phone_to_did : r.encrypted_phone = encryptPhone(rphone))
            => rresponse' = [status |-> 403, receipts |-> <<>>]
       /\ (rpc = "lookup" /\ rpc' = "member")
            => \E r \in phone_to_did :
                    /\ r.encrypted_phone = encryptPhone(rphone)
                    /\ requesterDid' = r.did
       /\ (rpc = "member" /\ ReadSteps /\ ~ActiveIn(jar_members, rjar, requesterDid))
            => rresponse' = [status |-> 403, receipts |-> <<>>]
       /\ (rpc' = "fetch" /\ ReadSteps)
            => /\ rpc = "member"
               /\ ActiveIn(jar_members, rjar, requesterDid)
               /\ requesterDid' = requesterDid /\ rjar' = rjar /\ rquery' = rquery
       /\ (ReadSteps /\ (rresponse'.status = 200 \/ rresponse'.receipts # <<>>))
            => /\ rpc = "fetch"
               /\ \A i \in 1..Len(rresponse'.receipts) :
                        rresponse'.receipts[i].jar_id = rjar]_vars

\* A caller whose DID was removed from the jar has been answered 403.
C12_Witness ==
    /\ rpc = "done"
    /\ rresponse = [status |-> 403, receipts |-> <<>>]
    /\ \E m \in jar_members :
            m.jar_id = "j1" /\ m.member_did = requesterDid /\ m.status = "removed"

\* The sequence_numbers of a response, in the order returned.
SeqsReturned(resp) == [i \in 1..Len(resp.receipts) |-> resp.receipts[i].sequence_number]

\* C13: for a caller that passed the membership check, the after=S mode
\* returns receipts of the jar with sequence_number > S in ascending order,
\* the lowest ones first, never more than min(N, 1000) of them (500 when no
\* limit is given) and all of them when they are fewer; the from=A,to=B mode
\* returns exactly the receipts with A <= sequence_number <= B in ascending
\* order, and A > B is answered 400.
C13_QueryModes ==
    [][/\ (rpc = "fetch" /\ ReadSteps /\ rquery.after.given) =>
            LET got == SeqsReturned(rresponse')
                all == {r.sequence_number : r \in {x \in jar_receipts :
                            x.jar_id = rjar /\ x.sequence_number > rquery.after.val}}
                cap == IF rquery.limit.given
                       THEN (IF rquery.limit.val < 1000 THEN rquery.limit.val ELSE 1000)
                       ELSE 500
            IN  /\ Len(got) <= cap
                /\ Len(got) = Cardinality(all) \/ Len(got) = cap
                /\ \A i \in 1..Len(got) :
                        /\ got[i] \in all
                        /\ \A j \in 1..Len(got) : i < j => got[i] < got[j]
                        /\ \A n \in all : n < got[i] => \E j \in 1..Len(got) : got[j] = n
       /\ (rpc = "fetch" /\ ReadSteps /\ ~rquery.after.given) =>
            LET got == SeqsReturned(rresponse')
                all == {r.sequence_number : r \in {x \in jar_receipts :
                            /\ x.jar_id = rjar
                            /\ rquery.from.val <= x.sequence_number
                            /\ x.sequence_number <= rquery.to.val}}
            IN  /\ {got[i] : i \in 1..Len(got)} = all
                /\ \A i \in 1..Len(got) : \A j \in 1..Len(got) : i < j => got[i] < got[j]
       /\ (rpc = "lookup" /\ ReadSteps /\ rphone # ""
            /\ (\E r \in phone_to_did : r.encrypted_phone = encryptPhone(rphone))
            /\ ~rquery.after.given /\ rquery.from.num /\ rquery.to.num
            /\ rquery.from.val > rquery.to.val)
            => rresponse' = [status |-> 400, receipts |-> <<>>]]_vars

----------------------------------------------------------------------------
(* Properties of getOrCreateAccountSalt *)

SaltCompletes(p) == spc[p] \in {"select", "insert"} /\ spc'[p] = "done"

OneSaltPerPhone ==
    \A r1 \in account_salts, r2 \in account_salts :
        r1.encrypted_phone = r2.encrypted_phone => r1 = r2

\* C14: a phone has at most one account_salts row; a row, once stored, stays
\* as it is in every later state; and a request that began when the row of
\* its phone existed answers 200 with that row's salt and created = false,
\* whatever other requests run at the same time.
C14_SaltWriteOnce ==
    /\ []OneSaltPerPhone
    /\ [][/\ account_salts \subseteq account_salts'
          /\ \A p \in Procs :
                (SaltCompletes(p) /\ sawRow[p]) =>
                    \E r \in account_salts :
                        /\ r.encrypted_phone = encryptPhone(sphone[p])
                        /\ sresponse'[p] = SaltResponse(200, r.salt, FALSE)]_vars

\* Two requests have been answered with the stored salt of one phone and
\* created = false.
C14_Witness ==
    \E r \in account_salts :
        \A p \in Procs :
            spc[p] = "done" /\ sresponse[p] = SaltResponse(200, r.salt, FALSE)

\* C15: a phone has at most one row, and every request that began when its
\* phone had no row answers 200 with the salt that is stored for the phone.
C15_FirstCallsAgree ==
    /\ []OneSaltPerPhone
    /\ [][\A p \in Procs :
            (SaltCompletes(p) /\ sphone[p] # "" /\ ~sawRow[p]) =>
                /\ sresponse'[p].status = 200
                /\ \E r \in account_salts' :
                        /\ r.encrypted_phone = encryptPhone(sphone[p])
                        /\ r.salt = sresponse'[p].salt]_vars

----------------------------------------------------------------------------
(* Properties of the message handlers and the expiry sweep *)

\* A step of the request of p.
MsgStep(p) == mpc'[p] # mpc[p]

BlobExists(bucket, key) == \E o \in bucket : o.key = key

\* C16: in every state, every message row that an inbox query shows
\* (expires_at > now) and that has a blob key refers to an object of the
\* blob store.
C16_VisibleRowHasBlob ==
    \A m \in encrypted_messages :
        (m.expires_at > now /\ m.r2_key # Null) =>
            BlobExists(R2_MESSAGES, m.r2_key[1])

\* C17: no step of a deleteMessage whose caller is not the sender of the
\* stored, not yet expired message changes the message rows, the blobs or the
\* delivery rows, and such a request is not answered 200.
C17_OnlySenderDeletes ==
    [][\A p \in Procs :
        (/\ mreq[p].op = "delete"
         /\ MsgStep(p)
         /\ \E m \in encrypted_messages :
                /\ m.message_id = mreq[p].message_id
                /\ m.expires_at > now
                /\ m.sender_did # mreq[p].caller)
        => /\ UNCHANGED <<encrypted_messages, message_delivery, R2_MESSAGES>>
           /\ mpc'[p] = "done" => mresponse'[p] # 200]_vars

Quiescent == cpc = "idle" /\ \A p \in Procs : mpc[p] \in {"idle", "done"}

NoOrphanDelivery ==
    \A d \in message_delivery :
        \E m \in encrypted_messages : m.message_id = d.message_id

\* C18: whenever no message operation is in progress every delivery row
\* refers to a stored message row, and when a deleteMessage is answered 200
\* the blob it read the key of is not in the blob store.
C18_NoOrphansAtRest ==
    /\ [](Quiescent => NoOrphanDelivery)
    /\ [][\A p \in Procs :
            (/\ mreq[p].op = "delete"
             /\ mpc'[p] = "done"
             /\ mresponse'[p] = 200
             /\ mmessage[p].r2_key # Null)
            => ~BlobExists(R2_MESSAGES', mmessage[p].r2_key[1])]_vars

DeviceActive(p) ==
    \E d \in devices :
        d.device_id = mreq[p].sender_device_id /\ d.status = "active"

DeviceOwned(p) ==
    \E d \in devices :
        /\ d.device_id = mreq[p].sender_device_id
        /\ d.status = "active"
        /\ d.owner_did = mreq[p].sender_did

\* The device check of the sendMessage of p is decided in this step.
DeviceChecked(p) == mpc[p] = "device" /\ MsgStep(p)

\* C19 as stated: the device check lets a send pass only for an active device
\* of sender_did, and in every other case the answer is 403 and no blob,
\* message row or delivery row is written.
C19_Rejected403 ==
    [][\A p \in Procs :
        DeviceChecked(p) =>
            IF DeviceOwned(p) THEN mpc'[p] = "existing"
            ELSE /\ mpc'[p] = "done"
                 /\ mresponse'[p] = 403
                 /\ UNCHANGED msgTables]_vars

\* C19 as amended: the device check lets a send pass only for an active device
\* of sender_did; the answer is 404 when the device is absent or inactive and
\* 403 when it is active and owned by another DID, and in both cases no blob,
\* message row or delivery row is written.
C19_RejectedByDevice ==
    [][\A p \in Procs :
        DeviceChecked(p) =>
            IF DeviceOwned(p) THEN mpc'[p] = "existing"
            ELSE /\ mpc'[p] = "done"
                 /\ mresponse'[p] = IF DeviceActive(p) THEN 403 ELSE 404
                 /\ UNCHANGED msgTables]_vars

\* One send was answered 404 because its device was deactivated, another 403,
\* and nothing is stored.
C19_Witness ==
    /\ \E d \in devices : d.device_id = "d2" /\ d.status # "active"
    /\ mpc = [p \in Procs |-> "done"]
    /\ \E p \in Procs : mresponse[p] = 403
    /\ \E p \in Procs : mresponse[p] = 404
    /\ msgCalls = 2
    /\ encrypted_messages = {} /\ message_delivery = {} /\ R2_MESSAGES = {}

\* C20: a sendMessage that is accepted leaves its own body under the blob key
\* of its row; and while the row of a message_id is stored, no step of
\* another sendMessage with that message_id changes the message rows, the
\* blobs or the delivery rows, and what ends that request, other than an
\* error of the blob store, is the answer 400.
C20_OneSendAccepted ==
    [][\A p \in Procs :
        /\ (mpc[p] = "row" /\ mpc'[p] = "deliver") =>
                R2Object(R2Key(mreq[p].message_id),
                         Atob(mreq[p].encrypted_payload)) \in R2_MESSAGES
        /\ (/\ mreq[p].op = "send"
            /\ mpc[p] \in {"existing", "put", "row"}
            /\ MsgStep(p)
            /\ \E m \in encrypted_messages : m.message_id = mreq[p].message_id)
           => /\ UNCHANGED <<encrypted_messages, message_delivery, R2_MESSAGES>>
              /\ (mpc[p] # "put" /\ mpc'[p] = "done") => mresponse'[p] = 400]_vars

----------------------------------------------------------------------------
(* Properties of the push fan-out *)

\* A step of the sendPushNotifications that the request of p scheduled.
PushStep(p) ==
    /\ mpc[p] \in {"push", "pushing"}
    /\ <<mpc[p], pdevices[p], presponse[p]>> # <<mpc'[p], pdevices'[p], presponse'[p]>>

\* C24: a send that has inserted its last delivery row is answered 201, and
\* no step of its push fan-out, however it ends, changes that response, the
\* message rows, the blobs or the delivery rows.
C24_PushNeverFailsSend ==
    [][\A p \in Procs :
        /\ (mpc[p] = "deliver" /\ mpc'[p] # "deliver") => mresponse'[p] = 201
        /\ PushStep(p) =>
            /\ mresponse'[p] = 201
            /\ UNCHANGED <<encrypted_messages, message_delivery, R2_MESSAGES>>]_vars

\* A send was answered 201 and its push fan-out has ended after a device was
\* deactivated; the row, the blob and a delivery row of the message are stored.
C24_Witness ==
    \E p \in Procs :
        /\ mpc[p] = "done" /\ mresponse[p] = 201
        /\ \E d \in devices : d.status = "inactive"
        /\ \E m \in encrypted_messages :
                /\ BlobExists(R2_MESSAGES, m.r2_key[1])
                /\ \E d \in message_delivery : d.message_id = m.message_id

\* C25: when the APNs response of a device is handled, a 410 leaves that
\* device's row with status inactive and apns_token null and every other row
\* as it was, and any other status or a thrown fetch leaves the whole devices
\* table as it was; the other steps of the push fan-out leave it as it was.
C25_Only410Deactivates ==
    [][\A p \in Procs :
        PushStep(p) =>
            IF presponse[p] # NoPush /\ presponse[p].status = 410
            THEN devices' =
                    {IF d.device_id = presponse[p].device_id
                     THEN DeviceRow(d.device_id, d.owner_did, d.pubkey_ed25519,
                                    Null, "inactive", d.registered_at)
                     ELSE d : d \in devices}
            ELSE devices' = devices]_vars

\* A push fan-out has deactivated one device and has another device, still
\* active and with its token, left to push to.
C25_Witness ==
    \E p \in Procs :
        /\ mpc[p] = "pushing" /\ presponse[p] = NoPush
        /\ \E d \in devices : d.status = "inactive" /\ d.apns_token = Null
        /\ \E d \in devices :
                d.device_id \in pdevices[p] /\ d.status = "active" /\ d.apns_token # Null

----------------------------------------------------------------------------
(* Rate limiting: the middleware, one request at a time *)

\* What a step of the rate limit middleware leaves alone.
rateFrame == <<jar_receipts, jar_members, devices, pc, jarId, receiptBytes,
               signatureBytes, senderPublicKey, isMember, attempt,
               authoritativeSequence, response, startMax, overlapsSame, calls,
               phone_to_did, extVars, auxVars>>

\* autoRateLimit and rateLimit(config) up to the throw or to next(): the
\* limiter is consulted, the headers are set, and an allowed request (or one to
\* a path without a configuration) goes on to the handlers.
RateLimit(req) ==
    /\ lpc = "idle"
    /\ lreq' = req
    /\ rateCalls' = rateCalls + 1
    /\ IF ConfigsOf(req.path) = {}
       THEN /\ lresponse' = RateResponse(200, FALSE, 0, 0, 0, 0)
            /\ served' = [served EXCEPT ![<<req.path, Principal(req)>>] = @ + 1]
            /\ UNCHANGED <<requests, lpc, lresult>>
       ELSE LET config == CHOOSE cfg \in ConfigsOf(req.path) : TRUE
                result == check(requests, RateKey(req), config.limit,
                                config.period, now)
            IN  /\ requests' = result.requests
                /\ IF result.allowed
                   THEN /\ lresponse' = RateResponse(200, TRUE, config.limit,
                                            result.remaining, result.resetAt, 0)
                        /\ served' = [served EXCEPT
                                        ![<<req.path, Principal(req)>>] = @ + 1]
                        /\ UNCHANGED <<lpc, lresult>>
                   ELSE /\ lresponse' = RateResponse(0, TRUE, config.limit,
                                            result.remaining, result.resetAt, 0)
                        /\ lpc' = "reject"
                        /\ lresult' = result
                        /\ UNCHANGED served
    /\ UNCHANGED <<now, rateTicks, rateFrame>>

\* if (!result.allowed): retryAfter is computed from a second Date.now(), the
\* header is set and Errors.RateLimited is thrown.
RateReject ==
    /\ lpc = "reject"
    /\ lresponse' = [lresponse EXCEPT !.status = 429,
                        !.retryAfter = Ceil(lresult.resetAt - now, 1000)]
    /\ lpc' = "idle"
    /\ lresult' = NoCheckResult
    /\ UNCHANGED <<requests, lreq, served, rateCalls, now, rateTicks, rateFrame>>

\* Date.now() advances by d milliseconds.
RateTick(d) ==
    /\ rateTicks < MaxRateTicks
    /\ rateTicks' = rateTicks + 1
    /\ now' = now + d
    /\ served' = [k \in DOMAIN served |-> 0]
    /\ UNCHANGED <<requests, lpc, lreq, lresult, lresponse, rateCalls, rateFrame>>

\* The steps of the clock in the model: a millisecond, and what brings a
\* window of 60 s to its last millisecond.
RateSteps == {1, 59999}

\* Requests to the routes that mount rateLimit(config) themselves: to /test
\* from a signed-in user, from a client address and without either, and to
\* /register from the client address.
RouteRequests ==
    {RouteRequest("/test", Some("u1"), Some("1.1.1.1")),
     RouteRequest("/test", Null, Some("1.1.1.1")),
     RouteRequest("/test", Null, Null),
     RouteRequest("/register", Null, Some("1.1.1.1"))}

RouteLimit(req) ==
    /\ rateCalls < MaxRateCalls
    /\ RateLimit(req)

RateNext ==
    \/ \E req \in RouteRequests : RouteLimit(req)
    \/ RateReject
    \/ \E d \in RateSteps : RateTick(d)

SpecRate == Init /\ [][RateNext]_vars

\* Requests to the service's endpoints, each with a valid token, all from one
\* client address.
ApiRequests ==
    {ApiRequest(path, uid, "1.1.1.1") :
        path \in {"/api/account/salt", "/api/devices/register"},
        uid \in {"u1", "u2"}}

ApiLimit(req) ==
    /\ rateCalls < MaxApiCalls
    /\ RateLimit(req)

ApiNext ==
    \/ \E req \in ApiRequests : ApiLimit(req)
    \/ RateReject
    \/ RateTick(299999)

SpecApi == Init /\ [][ApiNext]_vars

----------------------------------------------------------------------------
(* Rate limiting: properties *)

\* A request has just gone through rateLimiter.check.
RateStep == rateCalls' = rateCalls + 1

\* The configuration the limiter applies to the request of the step.
StepConfig == CHOOSE cfg \in ConfigsOf(lreq'.path) : TRUE

\* The request of the step was passed on to the handlers.
StepAllowed == lpc' = "idle" /\ lresponse'.status = 200

\* C26: a bucket never counts more than `limit` allowed calls in its window:
\* a call inside the window is allowed and counted while the count is below
\* the limit and refused, changing nothing, once it has reached it; the first
\* call at or after reset_at (or the first call of a key) is allowed and starts
\* a window with count 1 and reset_at = now + period; the buckets of the other
\* keys stay as they are.
C26_WindowStep ==
    (RateStep /\ ConfigsOf(lreq'.path) # {}) =>
        LET key == RateKey(lreq')
            old == {r \in requests : r.key = key}
            new == {r \in requests' : r.key = key}
        IN  /\ requests' \ new = requests \ old
            /\ IF old = {} \/ (\E r \in old : now >= r.resetAt)
               THEN /\ StepAllowed
                    /\ new = {RateRecord(key, 1, now + StepConfig.period * 1000)}
               ELSE \E r \in old :
                      IF r.count < StepConfig.limit
                      THEN /\ StepAllowed
                           /\ new = {RateRecord(key, r.count + 1, r.resetAt)}
                      ELSE /\ ~StepAllowed
                           /\ new = old

C26_CountWithinLimit ==
    \A r \in requests :
        \A cfg \in ConfigsOf(r.key[1]) : r.count >= 1 /\ r.count <= cfg.limit

C26_WindowsHoldLimit == []C26_CountWithinLimit /\ [][C26_WindowStep]_vars

\* Four calls on the one key of /test (limit 2): two allowed, one refused, and
\* the last, at the reset time of the first window, has started a second one.
C26_Witness ==
    /\ rateCalls = 4
    /\ lpc = "idle"
    /\ lresponse.status = 200
    /\ requests = {RateRecord(RateKey(lreq), 1, 120001)}
    /\ lreq.path = "/test"
    /\ now = 60001

\* C27: an allowed request reports as remaining the limit minus the requests
\* allowed so far in the window, and a refused one is answered 429 with
\* 1 <= Retry-After <= period.
C27_HeadersStep ==
    /\ (RateStep /\ ConfigsOf(lreq'.path) # {} /\ StepAllowed) =>
          \E r \in requests' :
              /\ r.key = RateKey(lreq')
              /\ lresponse'.remaining = StepConfig.limit - r.count
              /\ lresponse'.remaining >= 0
    /\ (lpc = "reject" /\ lpc' = "idle") =>
          /\ lresponse'.status = 429
          /\ lresponse'.retryAfter >= 1
          /\ lresponse'.retryAfter <=
                (CHOOSE cfg \in ConfigsOf(lreq.path) : TRUE).period

C27_RemainingAndRetryAfter == [][C27_HeadersStep]_vars

\* C28: a request with a valid token is charged to the bucket of its endpoint
\* and its caller, so a caller's request never changes the count of a bucket
\* that another caller's request has been charged to.
C28_ChargedStep ==
    (RateStep /\ lreq'.caller # Null /\ ConfigsOf(lreq'.path) # {}) =>
        /\ RateKey(lreq') = <<lreq'.path, lreq'.caller[1]>>
        /\ (lreq.caller # Null /\ lreq.caller # lreq'.caller
            /\ lreq.path = lreq'.path)
              => \A r \in requests :
                    r.key = RateKey(lreq) => r \in requests'

C28_KeyedByCaller == [][C28_ChargedStep]_vars

\* C29: within one window no principal has more requests passed on to the
\* handlers of an endpoint than the interface table allows for it.
C29_InterfaceLimitsEnforced ==
    \A cfg \in InterfaceLimits :
        \A who \in RatePrincipals : served[<<cfg.path, who>>] <= cfg.limit

----------------------------------------------------------------------------
(* getInbox and markDelivered: properties *)

\* The request of slot p is a getInbox that reads its rows in this step.
InboxSelects(p) == mpc[p] = "inbox" /\ mpc'[p] # "inbox"

\* The request of slot p is a getInbox that is answered in this step.
InboxAnswers(p) ==
    mpc[p] \in {"inbox", "fetch"} /\ mpc'[p] = "done" /\ mresponse'[p] = 200

\* The rows a getInbox has read in this step.
InboxSelected(p) == IF mpc'[p] = "fetch" THEN mrows'[p] ELSE <<>>

\* The limit a getInbox request asks for: its limit parameter, 50 without one.
AskedLimit(req) ==
    IF req.limit.given THEN req.limit.val ELSE InboxDefaultLimit

\* The base64 payload submitted with message id by sender.
SentPayload(id, sender) ==
    (CHOOSE r \in InboxRequests :
        r.op = "send" /\ r.message_id = id /\ r.sender_did = sender)
    .encrypted_payload

\* C21: a getInbox for a recipient reads every message that has its delivery
\* row, is newer than since, has not expired and has fewer than limit newer
\* messages before it, and returns each message with delivered_at null (no
\* delivery is marked here) and with the base64 payload that its sender sent.
C21_InboxStep ==
    \A p \in Procs :
        /\ InboxSelects(p) =>
              LET eligible == InboxRows(encrypted_messages, message_delivery,
                                  mreq[p].did, InboxSince(mreq[p].since), now)
              IN  \A row \in eligible :
                    Cardinality({x \in eligible :
                        x.created_at > row.created_at}) < AskedLimit(mreq[p])
                    => \E i \in 1..Len(InboxSelected(p)) :
                            InboxSelected(p)[i] = row
        /\ InboxAnswers(p) =>
              \A i \in 1..Len(minbox'[p].messages) :
                  LET m == minbox'[p].messages[i]
                  IN  /\ m.delivered_at = Null
                      /\ m.encrypted_payload = SentPayload(m.message_id, m.sender_did)

C21_InboxReturnsSent == [][C21_InboxStep]_vars

\* C22: markDelivered sets delivered_at, to the time of the call, on the rows
\* of (message_id, recipient_did) where it is null and answers 200; with no
\* such row it answers 404 and changes nothing; and no step of any handler
\* changes a delivered_at that is set while its row exists.
C22_MarkStep ==
    /\ \A d \in message_delivery :
          d.delivered_at # Null =>
              \A e \in message_delivery' : e.id = d.id => e = d
    /\ \A p \in Procs :
          (mpc[p] = "mark" /\ mpc'[p] # "mark") =>
              LET pending == {d \in message_delivery :
                                /\ d.message_id = mreq[p].message_id
                                /\ d.recipient_did = mreq[p].did
                                /\ d.delivered_at = Null}
              IN  IF pending = {}
                  THEN /\ mresponse'[p] = 404
                       /\ message_delivery' = message_delivery
                  ELSE /\ mresponse'[p] = 200
                       /\ message_delivery' = (message_delivery \ pending) \cup
                            {[d EXCEPT !.delivered_at = Some(now)] : d \in pending}

C22_DeliveredAtSetOnce == [][C22_MarkStep]_vars

\* A markDelivered is about to run, at a later time, for a delivery that an
\* earlier one has marked.
C22_Witness ==
    \E p \in Procs :
        /\ mpc[p] = "mark"
        /\ \E d \in message_delivery :
              /\ d.message_id = mreq[p].message_id
              /\ d.recipient_did = mreq[p].did
              /\ d.delivered_at # Null
              /\ d.delivered_at[1] < now

\* The limit the interface promises: min(limit, 100), 50 without a limit.
EffectiveLimit(req) ==
    IF req.limit.given THEN Min(req.limit.val, InboxLimitCap)
    ELSE InboxDefaultLimit

\* C23: getInbox reads the newest rows of the recipient that are newer than
\* since and not expired, in descending created_at order, returns never more
\* than min(limit, 100) of them (50 without a limit), and has_more is true
\* exactly when it returns that many.
C23_InboxStep ==
    \A p \in Procs :
        /\ InboxSelects(p) =>
              LET eligible == InboxRows(encrypted_messages, message_delivery,
                                  mreq[p].did, InboxSince(mreq[p].since), now)
                  rows == InboxSelected(p)
              IN  /\ \A i \in 1..Len(rows) : rows[i] \in eligible
                  /\ \A i, j \in 1..Len(rows) :
                        i < j => rows[i].created_at >= rows[j].created_at
                  /\ \A x \in eligible :
                        (\A i \in 1..Len(rows) : rows[i] # x) =>
                            \A i \in 1..Len(rows) :
                                rows[i].created_at >= x.created_at
        /\ InboxAnswers(p) =>
              /\ Len(minbox'[p].messages) <= EffectiveLimit(mreq[p])
              /\ minbox'[p].has_more =
                    (Len(minbox'[p].messages) = EffectiveLimit(mreq[p]))

C23_InboxWithinLimit == [][C23_InboxStep]_vars

----------------------------------------------------------------------------
(* cleanupExpiredMessages: orphan blobs *)

\* The blob of message id is in the bucket without a metadata row, and no
\* sendMessage that wrote it is still on its way to the INSERT.
OrphanBlob(id) ==
    /\ BlobExists(R2_MESSAGES, R2Key(id))
    /\ ~\E m \in encrypted_messages : m.message_id = id
    /\ \A p \in Procs : ~(mpc[p] = "row" /\ mreq[p].message_id = id)

\* C30: a blob that is in the object store without a metadata row is
\* eventually deleted by the periodic cleanup (or is no longer an orphan).
C30_OrphanBlobReclaimed == OrphanBlob("m1") ~> ~OrphanBlob("m1")

----------------------------------------------------------------------------
(* storeJarReceipt: the insert loop *)

\* The INSERT of request p fails on PRIMARY KEY (jar_id, sequence_number):
\* the sequence_number it computed is taken in its jar.
SequenceCollision(p) ==
    \E r \in jar_receipts :
        /\ r.jar_id = jarId[p]
        /\ r.sequence_number = NextSequence(jar_receipts, jarId[p])

\* tryInsertReceipt of request p returns null: the loop goes to its next
\* iteration or, after the last one, to the throw.
InsertReturnsNull(p) ==
    /\ pc[p] \in {"insert", "fetchSeq"}
    /\ \/ attempt'[p] = attempt[p] + 1
       \/ pc'[p] = "done" /\ response'[p].status = 500

\* C34: a request makes at most maxRetries insert attempts; an attempt is
\* given up for the next one, or for the final error, only after a collision
\* on the sequence_number it computed; the request that ends with the error
\* after its last attempt has stored no row.
C34_RetryOnlyOnSequenceCollision ==
    [][\A p \in Procs :
        /\ attempt'[p] < maxRetries
        /\ InsertReturnsNull(p) =>
              /\ SequenceCollision(p)
              /\ jar_receipts' = jar_receipts
              /\ pc'[p] = "done" => attempt[p] = maxRetries - 1]_vars

----------------------------------------------------------------------------
(* Membership specification: one owner adds, removes and re-admits members.  *)

InviteAcceptedB == Receipt("jar.invite_accepted", Did("a"), Payload("map", Did("b")))
AddedBytesB == Receipt("jar.member_added", Did("a"), Payload("bytes", Did("b")))
RemovedB == Receipt("jar.member_removed", Did("a"), Payload("map", Did("b")))
RemovedA == Receipt("jar.member_removed", Did("a"), Payload("map", Did("a")))

\* Correctly signed membership receipts of "a", and a first receipt of "b"
\* whose type has no materialization.
MemberRequests ==
    {[receipt_data |-> r, signature |-> Sign(KeyOf(r.sender_did), r)] :
        r \in {GenesisA, AddedBytesB, RemovedB, InviteAcceptedB, RemovedA,
               RenamedB}}

StoreBeginMember(p) == \E jar \in Jars, req \in MemberRequests : Begin(p, jar, req)

MembersNext ==
    \E p \in Procs :
        \/ StoreBeginMember(p)
        \/ ParseRequest(p)
        \/ CheckExisting(p)
        \/ VerifySender(p)
        \/ CheckMember(p)
        \/ CheckFirstReceipt(p)
        \/ TryInsertReceipt(p)
        \/ FetchSequence(p)
        \/ ProcessReceipt(p)

SpecMembers == Init /\ [][MembersNext]_vars

\* C35: in every reachable state a jar_members row with status active has
\* removed_at NULL, and a row with status removed has removed_at and
\* removed_by_receipt_cid set.
C35_StatusMatchesRemoval ==
    \A m \in jar_members :
        /\ m.status = "active" => m.removed_at = Null
        /\ m.status = "removed" =>
              m.removed_at # Null /\ m.removed_by_receipt_cid # Null


\* A request has inserted its row into the jar and not yet materialized it.
Materializing(jar) ==
    \E p \in Procs : jarId[p] = jar /\ pc[p] \in {"fetchSeq", "process"}

\* The jar has a stored receipt, every stored receipt has been through
\* processJarReceipt, and no jar_members row of the jar is active.
MemberlessJar(jar) ==
    /\ \E r \in jar_receipts : r.jar_id = jar
    /\ ~Materializing(jar)
    /\ ~\E m \in jar_members : m.jar_id = jar /\ m.status = "active"

\* C38: no step leads out of the state of a jar that has a stored receipt and
\* no active member: no row is added to its log and it regains no member.
C38_MemberlessJarStays ==
    [][\A jar \in Jars :
        MemberlessJar(jar) =>
            /\ MemberlessJar(jar)'
            /\ {r \in jar_receipts' : r.jar_id = jar}
                    = {r \in jar_receipts : r.jar_id = jar}]_vars

----------------------------------------------------------------------------
(* Two-jar specification: the same receipts are submitted to either jar. *)

TwoJars == {"j1", "j2"}

TwoJarRequests ==
    {[receipt_data |-> r, signature |-> Sign(KeyOf(r.sender_did), r)] :
        r \in {GenesisA, AddedBytesB}}

StoreBeginTwoJars(p) ==
    \E jar \in TwoJars, req \in TwoJarRequests : Begin(p, jar, req)

TwoJarsNext ==
    \E p \in Procs :
        \/ StoreBeginTwoJars(p)
        \/ ParseRequest(p)
        \/ CheckExisting(p)
        \/ VerifySender(p)
        \/ CheckMember(p)
        \/ CheckFirstReceipt(p)
        \/ TryInsertReceipt(p)
        \/ FetchSequence(p)
        \/ ProcessReceipt(p)

SpecTwoJars == Init /\ [][TwoJarsNext]_vars

\* C36: a request answered 200 with sequence_number s leaves a stored row
\* with the request's jar_id, sequence_number s and the CID of the submitted
\* receipt_data.
C36_ResponseNamesStoredRow ==
    [][\A p \in Procs :
        (Completes(p) /\ response'[p].status = 200) =>
            \E r \in jar_receipts' :
                /\ r.jar_id = jarId[p]
                /\ r.sequence_number = response'[p].sequence_number
                /\ r.receipt_cid = computeCID(receiptBytes[p])]_vars

----------------------------------------------------------------------------
(* Recipient-list specification: sends whose recipient_dids name a DID twice *)

\* schemas.dids accepts every list of 1 to 12 well-formed DIDs: m1 names b
\* twice, m2 names a and b once each.
RecipientRequests ==
    {SendRequest(Did("a"), "m1", Did("a"), "d1", <<Did("b"), Did("b")>>, "x"),
     SendRequest(Did("a"), "m2", Did("a"), "d1", <<Did("a"), Did("b")>>, "y"),
     InboxRequest(Did("b"), Did("b"), Absent, Absent)}

RecipientsNext ==
    \/ Tick
    \/ \E p \in Procs :
        \/ \E req \in RecipientRequests : MsgBegin(p, req)
        \/ SendCheckDevice(p)
        \/ SendCheckExisting(p)
        \/ SendPut(p)
        \/ SendInsertRow(p)
        \/ SendInsertDelivery(p)
        \/ PushNothing(p)
        \/ InboxSelect(p)
        \/ InboxFetch(p)

SpecRecipients == Init /\ [][RecipientsNext]_vars

\* The send of slot p is accepted in this step: its last delivery row is
\* inserted and 201 is the response.
SendAccepted(p) == mpc[p] = "deliver" /\ mresponse'[p] = 201

\* C39: an accepted send leaves exactly one delivery row for the message and
\* each DID of its recipient_dids, and an inbox response holds a message at
\* most once.
C39_OneDeliveryPerRecipient ==
    [][\A p \in Procs :
        /\ SendAccepted(p) =>
              \A i \in 1..Len(mreq[p].recipient_dids) :
                  Cardinality({d \in message_delivery' :
                      /\ d.message_id = mreq[p].message_id
                      /\ d.recipient_did = mreq[p].recipient_dids[i]}) = 1
        /\ InboxAnswers(p) =>
              \A i, j \in 1..Len(minbox'[p].messages) :
                  i # j => minbox'[p].messages[i].message_id
                              # minbox'[p].messages[j].message_id]_vars

----------------------------------------------------------------------------
(* handlers/devices and the device sweep, one action per database statement *)

MaxRegCalls == 3
MaxDeviceAges == 1

\* 90 * 24 * 60 * 60 * 1000 milliseconds; the clock of the model counts days.
NinetyDays == 90

\* A row of the table devices with the columns registerDevice writes.
DeviceRecord(id, owner, phone, name, x25519, ed25519, token, status, registeredAt, lastSeenAt) ==
    [device_id |-> id, owner_did |-> owner,
     owner_encrypted_phone |-> encryptPhone(phone), device_name |-> name,
     pubkey_x25519 |-> x25519, pubkey_ed25519 |-> ed25519, apns_token |-> token,
     status |-> status, registered_at |-> registeredAt,
     last_seen_at |-> lastSeenAt]

\* What a step of the device handlers leaves alone besides devices,
\* phone_to_did and the clock.
regFrame == <<jar_receipts, jar_members, pc, jarId, receiptBytes,
              signatureBytes, senderPublicKey, isMember, attempt,
              authoritativeSequence, response, startMax, overlapsSame, calls,
              rateVars, extVars, pollVars>>

\* The handler returns or throws: the response is sent, the locals are gone.
RegRespond(p, status) ==
    /\ dpc' = [dpc EXCEPT ![p] = "done"]
    /\ dresponse' = [dresponse EXCEPT ![p] = status]
    /\ dnow' = [dnow EXCEPT ![p] = 0]
    /\ dexisting' = [dexisting EXCEPT ![p] = FALSE]

\* if (user.phoneNumber) { if (user.phoneNumber !== phoneNumber) throw Forbidden }
PhoneMismatch_Strict(caller, phone) == caller # phone

PhoneMismatch(caller, phone) == caller # "" /\ caller # phone

\* The request arrives: c.get('user') and the body of c.req.json().
RegisterBegin(p, req) ==
    /\ dpc[p] \in {"idle", "done"}
    /\ devCalls < MaxRegCalls
    /\ devCalls' = devCalls + 1
    /\ dreq' = [dreq EXCEPT ![p] = req]
    /\ dpc' = [dpc EXCEPT ![p] = "check"]
    /\ dresponse' = [dresponse EXCEPT ![p] = 0]
    /\ UNCHANGED <<dnow, dexisting, devices, phone_to_did, now, regFrame>>

\* registerDevice up to its first statement: validate() of the body (400),
\* the phone check (403), encryptPhone under the configured key, and
\* const now = Date.now().
RegisterCheck(p) ==
    /\ dpc[p] = "check"
    /\ IF ~dreq[p].valid THEN RegRespond(p, 400)
       ELSE IF PhoneMismatch(dreq[p].caller, dreq[p].phone_number)
       THEN RegRespond(p, 403)
       ELSE /\ dpc' = [dpc EXCEPT ![p] = "select"]
            /\ dnow' = [dnow EXCEPT ![p] = now]
            /\ UNCHANGED <<dexisting, dresponse>>
    /\ UNCHANGED <<dreq, devCalls, devices, phone_to_did, now, regFrame>>

\* SELECT device_id FROM devices WHERE device_id = ?
RegisterSelect(p) ==
    /\ dpc[p] = "select"
    /\ dexisting' = [dexisting EXCEPT ![p] =
            \E d \in devices : d.device_id = dreq[p].device_id]
    /\ dpc' = [dpc EXCEPT ![p] = "write"]
    /\ UNCHANGED <<dreq, dnow, dresponse, devCalls, devices, phone_to_did, now,
                   regFrame>>

UpdateDevice_Reactivating(devs, req, phone, t) ==
    {IF d.device_id = req.device_id
     THEN [d EXCEPT !.device_name = req.device_name,
                    !.owner_encrypted_phone = phone,
                    !.pubkey_x25519 = req.pubkey_x25519,
                    !.pubkey_ed25519 = req.pubkey_ed25519,
                    !.apns_token = req.apns_token,
                    !.status = "active",
                    !.last_seen_at = t]
     ELSE d : d \in devs}

\* UPDATE devices SET device_name = ?, owner_encrypted_phone = ?,
\*   pubkey_x25519 = ?, pubkey_ed25519 = ?, apns_token = ?, last_seen_at = ?
\* WHERE device_id = ?
UpdateDevice(devs, req, phone, t) ==
    {IF d.device_id = req.device_id
     THEN [d EXCEPT !.device_name = req.device_name,
                    !.owner_encrypted_phone = phone,
                    !.pubkey_x25519 = req.pubkey_x25519,
                    !.pubkey_ed25519 = req.pubkey_ed25519,
                    !.apns_token = req.apns_token,
                    !.last_seen_at = t]
     ELSE d : d \in devs}

\* registerDevice: the UPDATE of the row the SELECT saw, or the INSERT of a
\* new active row; the PRIMARY KEY error of the INSERT propagates (500).
RegisterWrite(p) ==
    /\ dpc[p] = "write"
    /\ IF dexisting[p]
       THEN /\ devices' = UpdateDevice(devices, dreq[p],
                                       encryptPhone(dreq[p].phone_number), dnow[p])
            /\ dpc' = [dpc EXCEPT ![p] = "phone"]
            /\ UNCHANGED <<dnow, dexisting, dresponse>>
       ELSE IF \E d \in devices : d.device_id = dreq[p].device_id
       THEN /\ UNCHANGED devices
            /\ RegRespond(p, 500)
       ELSE /\ devices' = devices \cup
                    {DeviceRecord(dreq[p].device_id, dreq[p].owner_did,
                                  dreq[p].phone_number, dreq[p].device_name,
                                  dreq[p].pubkey_x25519, dreq[p].pubkey_ed25519,
                                  dreq[p].apns_token, "active", dnow[p], dnow[p])}
            /\ dpc' = [dpc EXCEPT ![p] = "phone"]
            /\ UNCHANGED <<dnow, dexisting, dresponse>>
    /\ UNCHANGED <<dreq, devCalls, phone_to_did, now, regFrame>>

\* registerDevice: the upsert of phone_to_did and the 201 response.
RegisterPhone(p) ==
    /\ dpc[p] = "phone"
    /\ phone_to_did' = UpsertPhone(phone_to_did, dreq[p].phone_number,
                                   dreq[p].owner_did)
    /\ RegRespond(p, 201)
    /\ UNCHANGED <<dreq, devCalls, devices, now, regFrame>>

\* deviceHeartbeat: the request arrives, the body of c.req.json().
HeartbeatBegin(p, id) ==
    /\ dpc[p] \in {"idle", "done"}
    /\ devCalls < MaxRegCalls
    /\ devCalls' = devCalls + 1
    /\ dreq' = [dreq EXCEPT ![p] =
            DeviceRequest("", TRUE, id, "", NoDid, "", "", "", Null)]
    /\ dpc' = [dpc EXCEPT ![p] = "beat"]
    /\ dresponse' = [dresponse EXCEPT ![p] = 0]
    /\ UNCHANGED <<dnow, dexisting, devices, phone_to_did, now, regFrame>>

\* deviceHeartbeat: UPDATE devices SET last_seen_at = ? WHERE device_id = ?
\* AND status = 'active'; NotFound (404) when result.meta.changes is 0.
DeviceHeartbeat(p) ==
    /\ dpc[p] = "beat"
    /\ LET hit == {d \in devices :
                    d.device_id = dreq[p].device_id /\ d.status = "active"}
       IN  /\ devices' = (devices \ hit)
                            \cup {[d EXCEPT !.last_seen_at = now] : d \in hit}
           /\ RegRespond(p, IF hit = {} THEN 404 ELSE 200)
    /\ UNCHANGED <<dreq, devCalls, phone_to_did, now, regFrame>>

SweptDevices_AnyStatus(devs, t) ==
    {d \in devs : d.last_seen_at < t - NinetyDays}

\* WHERE status = 'active' AND last_seen_at < ?  (now - 90 days)
SweptDevices(devs, t) ==
    {d \in devs : d.status = "active" /\ d.last_seen_at < t - NinetyDays}

\* cron/cleanup cleanupInactiveDevices: DELETE FROM devices WHERE ...
CleanupInactiveDevices ==
    /\ SweptDevices(devices, now) # {}
    /\ devices' = devices \ SweptDevices(devices, now)
    /\ UNCHANGED <<phone_to_did, now, regVars, regFrame>>

\* Ninety days and a day pass: what was last seen before is due for the sweep.
PassNinetyDays ==
    /\ now <= MaxDeviceAges * NinetyDays
    /\ now' = now + NinetyDays + 1
    /\ UNCHANGED <<devices, phone_to_did, regVars, regFrame>>


----------------------------------------------------------------------------
(* Device-handler specification: devices are registered, re-registered,      *)
(* deactivated and swept while ninety days pass.                             *)

\* d1 is registered to a under a's phone.
DevicesInit ==
    /\ jar_receipts = {}
    /\ jar_members = {}
    /\ devices = {DeviceRecord("d1", Did("a"), "+1", "n1", "x1", "k1",
                               Some("t1"), "active", 1, 1)}
    /\ now = 1
    /\ phone_to_did = {PhoneRow("+1", Did("a"))}
    /\ InitCalls

\* The registrations submitted: a re-registers d1 with new values and
\* registers d2; the holder of b's phone registers d2 for the DID of a and
\* tries d1 under a's phone; a caller whose token has no phone number registers
\* d2 for b under a's phone; a body that fails validation.
DeviceRequests ==
    {DeviceRequest("+1", TRUE, "d1", "n2", Did("a"), "+1", "x2", "k2", Some("t2")),
     DeviceRequest("+1", TRUE, "d2", "n1", Did("a"), "+1", "x1", "k1", Null),
     DeviceRequest("+2", TRUE, "d2", "n2", Did("a"), "+2", "x2", "k2", Null),
     DeviceRequest("+2", TRUE, "d1", "n2", Did("b"), "+1", "x2", "k2", Null),
     DeviceRequest("", TRUE, "d2", "n2", Did("b"), "+1", "x2", "k2", Null),
     DeviceRequest("+2", FALSE, "d1", "", Did("b"), "+1", "x2", "k2", Null)}

RegisterDeviceBegin(p) == \E req \in DeviceRequests : RegisterBegin(p, req)

DevicesNext ==
    \/ PassNinetyDays
    \/ CleanupInactiveDevices
    \/ \E id \in DeviceIds : MarkDeviceInactive(id)
    \/ \E p \in Procs :
        \/ RegisterDeviceBegin(p)
        \/ RegisterCheck(p)
        \/ RegisterSelect(p)
        \/ RegisterWrite(p)
        \/ RegisterPhone(p)
        \/ \E id \in DeviceIds : HeartbeatBegin(p, id)
        \/ DeviceHeartbeat(p)

SpecDevices == DevicesInit /\ [][DevicesNext]_vars


\* The life of d1: its owner re-registers it with new values and sends
\* heartbeats while APNs reports it gone, ninety days pass and the sweep runs.
InactiveNext ==
    \/ PassNinetyDays
    \/ CleanupInactiveDevices
    \/ MarkDeviceInactive("d1")
    \/ \E p \in Procs :
        \/ RegisterBegin(p, DeviceRequest("+1", TRUE, "d1", "n2", Did("a"), "+1",
                                          "x2", "k2", Some("t2")))
        \/ RegisterCheck(p)
        \/ RegisterSelect(p)
        \/ RegisterWrite(p)
        \/ RegisterPhone(p)
        \/ HeartbeatBegin(p, "d1")
        \/ DeviceHeartbeat(p)

SpecInactive == DevicesInit /\ [][InactiveNext]_vars

----------------------------------------------------------------------------
(* Properties of the device handlers *)

\* The registerDevice of slot p runs its UPDATE or INSERT in this step.
RegisterWrites(p) == dpc[p] = "write" /\ dpc'[p] # "write"

\* The row of devs with the device_id of the request carries the request's
\* name, keys and push token and last_seen_at = t.
Overwritten(devs, req, t) ==
    \E d \in devs :
        /\ d.device_id = req.device_id
        /\ d.device_name = req.device_name
        /\ d.pubkey_x25519 = req.pubkey_x25519
        /\ d.pubkey_ed25519 = req.pubkey_ed25519
        /\ d.apns_token = req.apns_token
        /\ d.last_seen_at = t

\* C31: a registerDevice whose device_id existed when it looked leaves the row
\* with the request's name, keys and push token, last_seen_at = now and the
\* registered_at it had; one whose device_id was new leaves an active row with
\* the request's values and registered_at = last_seen_at = now.
C31_RegisterOverwritesOrInserts ==
    [][\A p \in Procs :
        RegisterWrites(p) =>
            /\ Overwritten(devices', dreq[p], dnow[p])
            /\ \A d \in devices' :
                d.device_id = dreq[p].device_id =>
                    IF dexisting[p]
                    THEN \E o \in devices :
                            /\ o.device_id = d.device_id
                            /\ o.registered_at = d.registered_at
                    ELSE /\ d.status = "active"
                         /\ d.registered_at = dnow[p]
                         /\ d.last_seen_at = dnow[p]]_vars


\* C32: in every reachable state the device rows of one owner_did carry the
\* same owner_encrypted_phone.
C32_OneDidOnePhone ==
    \A d \in devices, e \in devices :
        d.owner_did = e.owner_did =>
            d.owner_encrypted_phone = e.owner_encrypted_phone


\* The registerDevice of slot p is answered in this step.
RegisterAnswers(p) ==
    dpc[p] \in {"check", "write", "phone"} /\ dpc'[p] = "done"

\* C33: a registerDevice is answered 201 only when the phone_number of its
\* body is the phone of the caller's token; every other registration is
\* answered 403, and no step of it writes a devices or phone_to_did row.
C33_PhoneMustMatch ==
    [][\A p \in Procs :
        /\ (RegisterAnswers(p) /\ dresponse'[p] = 201) =>
              dreq[p].phone_number = dreq[p].caller
        /\ (RegisterAnswers(p)
                /\ dreq[p].phone_number # dreq[p].caller) =>
              /\ dresponse'[p] = 403
              /\ devices' = devices
              /\ phone_to_did' = phone_to_did
        /\ (dpc[p] \in {"write", "phone"}
                /\ (devices' # devices \/ phone_to_did' # phone_to_did)
                /\ dpc'[p] # dpc[p]) =>
              dreq[p].phone_number = dreq[p].caller]_vars


\* The deviceHeartbeat of slot p runs its UPDATE and is answered in this step.
HeartbeatAnswers(p) == dpc[p] = "beat" /\ dpc'[p] = "done"

\* C37: a device row that is inactive stays: after every step the row is
\* there, inactive, with the owner and registered_at it had; a registerDevice
\* that found its device_id writes the request's name, keys and push token
\* into it; a
\* deviceHeartbeat on its device_id is answered 404; the device check of
\* sendMessage and the key lookup of storeJarReceipt do not see it; the sweep
\* does not select it.
C37_InactiveStep ==
    \A d \in devices :
        d.status = "inactive" =>
            /\ \E e \in devices' :
                /\ e.device_id = d.device_id
                /\ e.status = "inactive"
                /\ e.owner_did = d.owner_did
                /\ e.registered_at = d.registered_at
            /\ \A p \in Procs :
                /\ (RegisterWrites(p) /\ dexisting[p]
                        /\ dreq[p].device_id = d.device_id) =>
                      /\ dpc'[p] = "phone"
                      /\ Overwritten(devices', dreq[p], dnow[p])
                /\ (HeartbeatAnswers(p) /\ dreq[p].device_id = d.device_id) =>
                      /\ dresponse'[p] = 404
                      /\ devices' = devices
            /\ ActiveDeviceOwner(devices, d.device_id) = {}
            /\ getSenderPublicKey(devices, d.owner_did)
                    = getSenderPublicKey(devices \ {d}, d.owner_did)
            /\ d \notin SweptDevices(devices, now)

----------------------------------------------------------------------------
(* Polling specification: a recipient reads its inbox with since set to the  *)
(* largest created_at it has received.                                       *)

\* The limit parameter the polling recipient sends.
PollLimit == 1

\* What a step of the polling recipient leaves alone besides the locals of the
\* getInbox that serves it.
pollFrame == <<jarVars, phone_to_did, rateVars, regVars, readVars, saltVars,
               msgTables, sweepVars, msgCalls, mnow, mmessage, mleft, mrows,
               pdevices, presponse>>

\* The recipient b calls GET /api/messages/inbox?did=b&since=<cursor>&limit=1.
PollBegin(p) ==
    /\ polling = ""
    /\ mpc[p] \in {"idle", "done"}
    /\ polling' = p
    /\ mpc' = [mpc EXCEPT ![p] = "inbox"]
    /\ mreq' = [mreq EXCEPT ![p] =
            InboxRequest(Did("b"), Did("b"), Num(cursor), Num(PollLimit))]
    /\ mresponse' = [mresponse EXCEPT ![p] = 0]
    /\ minbox' = [minbox EXCEPT ![p] = NoInbox]
    /\ UNCHANGED <<cursor, received, pollFrame>>

\* max of a and the created_at of the messages of a response
RECURSIVE LargestCreatedAt(_, _)
LargestCreatedAt(a, messages) ==
    IF messages = <<>> THEN a
    ELSE LargestCreatedAt(IF Head(messages).created_at > a
                              THEN Head(messages).created_at ELSE a,
                          Tail(messages))

\* The recipient reads the response: it keeps the messages and moves since
\* to the largest created_at it has received.
PollReceive(p) ==
    /\ polling = p
    /\ mpc[p] = "done"
    /\ polling' = ""
    /\ received' = received \cup
            {minbox[p].messages[i].message_id : i \in 1..Len(minbox[p].messages)}
    /\ cursor' = LargestCreatedAt(cursor, minbox[p].messages)
    /\ UNCHANGED <<mpc, mreq, mresponse, minbox, pollFrame>>

\* m1 and m2 sent by a to b.
PollSends ==
    {SendRequest(Did("a"), id, Did("a"), "d1", <<Did("b")>>, "x") :
        id \in {"m1", "m2"}}

\* A send arrives; the slot whose response the recipient has yet to read is
\* not taken.
PollSend(p) == polling # p /\ \E req \in PollSends : MsgBegin(p, req)

PollNext ==
    \/ Tick
    \/ \E p \in Procs :
        \/ PollSend(p)
        \/ SendCheckDevice(p)
        \/ SendCheckExisting(p)
        \/ SendPut(p)
        \/ SendInsertRow(p)
        \/ SendInsertDelivery(p)
        \/ PushNothing(p)
        \/ PollBegin(p)
        \/ InboxSelect(p)
        \/ InboxFetch(p)
        \/ PollReceive(p)

\* The recipient keeps polling, and a request that has begun is served to its
\* end.
SpecPoll ==
    /\ Init
    /\ [][PollNext]_vars
    /\ WF_vars(\E p \in Procs : PollBegin(p))
    /\ \A p \in Procs :
        WF_vars(SendCheckDevice(p) \/ SendCheckExisting(p) \/ SendPut(p)
                \/ SendInsertRow(p) \/ SendInsertDelivery(p) \/ PushNothing(p)
                \/ InboxSelect(p) \/ InboxFetch(p) \/ PollReceive(p))

\* The message is stored with a delivery row for b.
AddressedToB(id) ==
    /\ \E m \in encrypted_messages : m.message_id = id
    /\ \E d \in message_delivery :
            d.message_id = id /\ d.recipient_did = Did("b")

\* C40: every message stored for the polling recipient is eventually among
\* the messages it has received (no message expires in this specification).
C40_PollerReceivesAll ==
    \A id \in {"m1", "m2"} : AddressedToB(id) ~> (id \in received)

====
